---- MODULE Spec2Model ----
(***************************************************************************)
(* A model of the melody pipeline of the hum-to-melody backend:            *)
(* scale quantization and key detection (music_theory.py), rhythm          *)
(* quantization and tempo estimation (rhythm_processor.py), the melody     *)
(* enhancers and the duration extender (melody_enhancer.py) and the MIDI   *)
(* renderer (melody_generator.py).                                         *)
(*                                                                         *)
(* Times are integers in microseconds (1 s = 1000000).  Intensities and    *)
(* other fractions in [0,1] are integers in percent.  The arithmetic is    *)
(* exact: the inputs the specifications draw are chosen so that every      *)
(* division the code performs on them is exact in microseconds.            *)
(***************************************************************************)
EXTENDS Integers, Sequences, FiniteSets, TLC

VARIABLES
    call,       \* the function whose call completed last ("none" at start)
    notes,      \* the caller's note list: the list object passed to the call
    args,       \* the other arguments of the call
    result,     \* the value the call returned
    aliased,    \* TRUE when the returned list is the list object passed in
    prev,       \* the value returned by the call before the last one
    rng,        \* the coming outputs of np.random, in percent, read cyclically
    pc,         \* notes_to_midi: position of the renderer
    queue,      \* notes_to_midi: notes_sorted still to be rendered
    last_tick,  \* notes_to_midi: the local last_tick
    track,      \* notes_to_midi: the messages appended to the track
    out_file,   \* notes_to_wav: the file at out_path
    loop_offset, \* extend_melody_duration: the local offset
    loop_extended, \* extend_melody_duration: the local list extended
    stages,     \* hum_to_melody: the stages run so far, each with the
                \* number of notes it returned
    detected_key, \* hum_to_melody: detected_root and detected_scale
    enhancement, \* hum_to_melody: the mode and intensity passed to
                \* enhance_melody
    analysis,   \* hum_to_melody: what analyze_melody returned
    files,      \* hum_to_melody: the local files written
    supabase,   \* supabase_storage: enabled, and the outcome of each upload
    urls        \* hum_to_melody: hum_url, midi_url and audio_url

vars == <<call, notes, args, result, aliased, prev, rng, pc, queue, last_tick,
          track, out_file, loop_offset, loop_extended, stages, detected_key,
          enhancement, analysis, files, supabase, urls>>

midiVars == <<pc, queue, last_tick, track>>

extendVars == <<loop_offset, loop_extended>>

requestVars == <<stages, detected_key, enhancement, analysis, files, supabase,
                 urls>>

(***************************************************************************)
(* Arithmetic helpers                                                      *)
(***************************************************************************)
Abs(x) == IF x < 0 THEN -x ELSE x

Max(a, b) == IF a >= b THEN a ELSE b

Min(a, b) == IF a <= b THEN a ELSE b

\* Python's round(n/d) for d > 0: to the nearest integer, halves to even.
Round(n, d) ==
    LET q == n \div d
        r == n % d
    IN  IF 2 * r < d THEN q
        ELSE IF 2 * r > d THEN q + 1
        ELSE IF q % 2 = 0 THEN q ELSE q + 1

\* Python's int(n/d) for d > 0: truncation toward zero.
Trunc(n, d) == IF n >= 0 THEN n \div d ELSE -((-n) \div d)

Range(s) == {s[i] : i \in 1..Len(s)}

\* A Note is a record {midi, start, end}.
Note(m, s, e) == [midi |-> m, start |-> s, end |-> e]

(***************************************************************************)
(* music_theory.py: the scale catalog                                      *)
(***************************************************************************)
ScaleNames ==
    <<"major", "minor", "harmonic_minor", "melodic_minor", "dorian",
      "phrygian", "lydian", "mixolydian", "locrian", "major_pentatonic",
      "minor_pentatonic", "blues", "major_blues", "afrobeat",
      "afro_pentatonic", "trap", "trap_pentatonic", "arabic", "japanese",
      "hungarian_minor", "spanish">>

SCALES ==
    [n \in Range(ScaleNames) |->
        CASE n = "major"            -> <<0, 2, 4, 5, 7, 9, 11>>
          [] n = "minor"            -> <<0, 2, 3, 5, 7, 8, 10>>
          [] n = "harmonic_minor"   -> <<0, 2, 3, 5, 7, 8, 11>>
          [] n = "melodic_minor"    -> <<0, 2, 3, 5, 7, 9, 11>>
          [] n = "dorian"           -> <<0, 2, 3, 5, 7, 9, 10>>
          [] n = "phrygian"         -> <<0, 1, 3, 5, 7, 8, 10>>
          [] n = "lydian"           -> <<0, 2, 4, 6, 7, 9, 11>>
          [] n = "mixolydian"       -> <<0, 2, 4, 5, 7, 9, 10>>
          [] n = "locrian"          -> <<0, 1, 3, 5, 6, 8, 10>>
          [] n = "major_pentatonic" -> <<0, 2, 4, 7, 9>>
          [] n = "minor_pentatonic" -> <<0, 3, 5, 7, 10>>
          [] n = "blues"            -> <<0, 3, 5, 6, 7, 10>>
          [] n = "major_blues"      -> <<0, 2, 3, 4, 7, 9>>
          [] n = "afrobeat"         -> <<0, 2, 3, 5, 7, 9, 10>>
          [] n = "afro_pentatonic"  -> <<0, 2, 5, 7, 10>>
          [] n = "trap"             -> <<0, 2, 3, 5, 7, 8, 11>>
          [] n = "trap_pentatonic"  -> <<0, 3, 5, 7, 10>>
          [] n = "arabic"           -> <<0, 1, 4, 5, 7, 8, 11>>
          [] n = "japanese"         -> <<0, 1, 5, 7, 8>>
          [] n = "hungarian_minor"  -> <<0, 2, 3, 6, 7, 8, 11>>
          [] n = "spanish"          -> <<0, 1, 4, 5, 7, 8, 10>>]

NOTE_NAMES == <<"C", "C#", "D", "D#", "E", "F", "F#", "G", "G#", "A", "A#", "B">>

\* NOTE_NAMES.index(name), 0-based as in the code.
NoteIndex(name) == (CHOOSE i \in 1..Len(NOTE_NAMES) : NOTE_NAMES[i] = name) - 1

(***************************************************************************)
(* music_theory.py: quantize_to_scale                                      *)
(***************************************************************************)
\* root = "C" when root is not in NOTE_NAMES.
\* A fallback to the first entry of a catalog that begins with "A".
RootOrFirstLetter(root) == IF root \in Range(NOTE_NAMES) THEN root ELSE "A"

RootOrDefault(root) == IF root \in Range(NOTE_NAMES) THEN root ELSE "C"

\* scale = "minor" when scale is not in SCALES.
ScaleOrDefault(scale) == IF scale \in DOMAIN SCALES THEN scale ELSE "minor"

\* min(scale_intervals, key=lambda d: abs(d - relative_pitch)): the first
\* interval, in the stored order, at the least distance.
ClosestDegree(scale_intervals, relative_pitch) ==
    LET key(i) == Abs(scale_intervals[i] - relative_pitch)
        best == CHOOSE i \in 1..Len(scale_intervals) :
                    \A j \in 1..Len(scale_intervals) :
                        /\ key(i) <= key(j)
                        /\ (key(j) = key(i) => i <= j)
    IN  scale_intervals[best]

\* A reconstruction that drops the root offset.
ReconstructNoRoot(octave, root_num, closest) == (octave * 12) + (closest % 12)

\* quantized_pitch = (root_num + closest) % 12; octave * 12 + quantized_pitch
Reconstruct(octave, root_num, closest) ==
    (octave * 12) + ((root_num + closest) % 12)

quantize_to_scale(midi_note, root, scale) ==
    LET root_num        == NoteIndex(RootOrDefault(root))
        scale_intervals == SCALES[ScaleOrDefault(scale)]
        octave          == midi_note \div 12
        pitch_class     == midi_note % 12
        relative_pitch  == (pitch_class - root_num) % 12
        closest         == ClosestDegree(scale_intervals, relative_pitch)
    IN  Reconstruct(octave, root_num, closest)

(***************************************************************************)
(* Specification SpecScale: quantize_to_scale on every pitch, root and     *)
(* scale, and on a root and a scale name the catalog does not know.        *)
(***************************************************************************)
MidiPitches == 0..127

RootInputs == Range(NOTE_NAMES) \cup {"H"}

ScaleInputs == DOMAIN SCALES \cup {"bogus"}

\* No file at out_path: notes_to_wav has not opened it.
NoFile == [exists |-> FALSE, framerate |-> 0, frames |-> <<>>]

\* No call of extend_melody_duration and no request under way.
IdleRequest ==
    /\ loop_offset = 0
    /\ loop_extended = <<>>
    /\ stages = <<>>
    /\ detected_key = <<>>
    /\ enhancement = <<>>
    /\ analysis = <<>>
    /\ files = {}
    /\ supabase = [enabled |-> FALSE]
    /\ urls = <<>>

IdleMidi ==
    /\ pc = "idle"
    /\ queue = <<>>
    /\ last_tick = 0
    /\ track = <<>>

InitScale ==
    /\ call = "none"
    /\ notes = <<>>
    /\ args \in [midi : MidiPitches, root : RootInputs, scale : ScaleInputs]
    /\ result = 0
    /\ aliased = FALSE
    /\ prev = 0
    /\ rng = <<>>
    /\ IdleMidi
    /\ out_file = NoFile
    /\ IdleRequest

QuantizeToScaleCall ==
    /\ call = "none"
    /\ call' = "quantize_to_scale"
    /\ result' = quantize_to_scale(args.midi, args.root, args.scale)
    /\ UNCHANGED <<notes, args, aliased, prev, rng, midiVars, out_file,
                 extendVars, requestVars>>

NextScale == QuantizeToScaleCall

SpecScale == InitScale /\ [][NextScale]_vars

\* The pitch classes (root, scale) allows.
AllowedPitch(q, root, scale) ==
    (q - NoteIndex(root)) % 12 \in Range(SCALES[scale])

KnownKey == args.root \in Range(NOTE_NAMES) /\ args.scale \in DOMAIN SCALES

\* C1: for every pitch 0..127, every one of the 12 roots and every catalog
\* scale, the pitch quantize_to_scale returns has (q - index(root)) mod 12 in
\* the scale's interval set.
C1_QuantizedInScale ==
    (call = "quantize_to_scale" /\ KnownKey)
        => AllowedPitch(result, args.root, args.scale)

\* A quantization that moved the pitch onto the scale, under a root other
\* than C.
C1_Witness ==
    /\ call = "quantize_to_scale"
    /\ KnownKey
    /\ args.root = "D"
    /\ args.scale = "major_pentatonic"
    /\ result # args.midi
    /\ AllowedPitch(result, args.root, args.scale)

\* C13: quantize_to_scale does not fail on unknown names: with a root that
\* is not one of the 12 pitch-class names it returns what root "C" (index 0)
\* gives, and with a scale name outside the catalog what the intervals of
\* "minor" give, for every pitch and whatever the other name is.
C13_UnknownNamesFallBack ==
    call = "quantize_to_scale" =>
        LET root_num  == IF args.root \in Range(NOTE_NAMES)
                         THEN NoteIndex(args.root) ELSE 0
            intervals == IF args.scale \in DOMAIN SCALES
                         THEN SCALES[args.scale] ELSE SCALES["minor"]
            relative  == ((args.midi % 12) - root_num) % 12
            nearest   == CHOOSE d \in Range(intervals) :
                             \A e \in Range(intervals) :
                                 \/ Abs(d - relative) < Abs(e - relative)
                                 \/ (Abs(d - relative) = Abs(e - relative)
                                        /\ d <= e)
        IN  result = 12 * (args.midi \div 12) + ((root_num + nearest) % 12)

\* Both names unknown, and a pitch that C minor moves.
C13_Witness ==
    /\ call = "quantize_to_scale"
    /\ args.root \notin Range(NOTE_NAMES)
    /\ args.scale \notin DOMAIN SCALES
    /\ args.midi = 61
    /\ result = 60

\* C2: quantize_to_scale returns a nearest scale member: no pitch whose pitch
\* class (root, scale) allows is strictly closer to the input than the
\* returned pitch.
C2_NearestMember ==
    (call = "quantize_to_scale" /\ KnownKey)
        => \A q \in MidiPitches :
               AllowedPitch(q, args.root, args.scale)
                   => Abs(q - args.midi) >= Abs(result - args.midi)
(***************************************************************************)
(* music_theory.py: detect_key                                             *)
(***************************************************************************)
scales_to_try ==
    <<"major", "minor", "harmonic_minor", "minor_pentatonic",
      "major_pentatonic", "dorian", "phrygian">>

\* pitch_class_weights: the Counter of summed durations, keyed by the pitch
\* classes that occur.
RECURSIVE PitchClassWeights(_)
PitchClassWeights(ns) ==
    IF ns = <<>> THEN [pclass \in {} |-> 0]
    ELSE LET rest     == PitchClassWeights(SubSeq(ns, 1, Len(ns) - 1))
             note     == ns[Len(ns)]
             duration == note.end - note.start
             pclass       == note.midi % 12
             old      == IF pclass \in DOMAIN rest THEN rest[pclass] ELSE 0
         IN  [k \in DOMAIN rest \cup {pclass} |->
                 IF k = pclass THEN old + duration ELSE rest[k]]

RECURSIVE SumOver(_, _)
SumOver(f, S) ==
    IF S = {} THEN 0
    ELSE LET x == CHOOSE y \in S : TRUE IN f[x] + SumOver(f, S \ {x})

\* The score of one (root, scale) candidate as the fraction num/den with
\* den > 0: score += weight in the scale, score -= weight * 0.5 outside it,
\* then score / total_weight when total_weight > 0.
KeyScore(weights, root, scale_name) ==
    LET scale  == SCALES[scale_name]
        inS    == {pclass \in DOMAIN weights : (pclass - root) % 12 \in Range(scale)}
        total_weight == SumOver(weights, DOMAIN weights)
        twice  == 2 * SumOver(weights, inS)
                    - SumOver(weights, DOMAIN weights \ inS)
    IN  [num |-> twice,
         den |-> IF total_weight > 0 THEN 2 * total_weight ELSE 2]

\* a/b > c/d for b, d > 0; scores of one call share their denominator.
FracGreater(x, y) ==
    IF x.den = y.den THEN x.num > y.num
    ELSE x.num * y.den > y.num * x.den

\* A comparison that also replaces the best key on an equal score.
BetterOrEqual(score, best_score) == ~FracGreater(best_score, score)

\* if score > best_score
Better(score, best_score) == FracGreater(score, best_score)

\* The loops over root in range(12) and scale_name in scales_to_try, from
\* candidate number k (root = k div 7, scale = k mod 7) on.
RECURSIVE KeySearch(_, _, _, _)
KeySearch(weights, k, best_score, best_key) ==
    IF k = 12 * Len(scales_to_try) THEN best_key
    ELSE LET root       == k \div Len(scales_to_try)
             scale_name == scales_to_try[(k % Len(scales_to_try)) + 1]
             score      == KeyScore(weights, root, scale_name)
         IN  IF Better(score, best_score)
             THEN KeySearch(weights, k + 1, score,
                            <<NOTE_NAMES[root + 1], scale_name>>)
             ELSE KeySearch(weights, k + 1, best_score, best_key)

detect_key(ns) ==
    IF ns = <<>> THEN <<"C", "minor">>
    ELSE KeySearch(PitchClassWeights(ns), 0,
                   [num |-> -1, den |-> 1], <<"C", "minor">>)

(***************************************************************************)
(* Specification SpecKey: detect_key on lists of positive-duration notes.  *)
(***************************************************************************)
MaxKeyNotes == 3

KeyPitches == {60, 61, 64, 67, 70}

KeyDurations == {100000, 300000}

\* Lists of back-to-back notes, as the segmenter produces them.
RECURSIVE KeyNoteLists(_)
KeyNoteLists(n) ==
    IF n = 0 THEN {<<>>}
    ELSE LET shorter == KeyNoteLists(n - 1)
             full    == {l \in shorter : Len(l) = n - 1}
             t(l)    == IF l = <<>> THEN 0 ELSE l[Len(l)].end
         IN  shorter \cup
             {Append(l, Note(p, t(l), t(l) + d)) :
                 l \in full, p \in KeyPitches, d \in KeyDurations}

InitKey ==
    /\ call = "none"
    /\ notes \in KeyNoteLists(MaxKeyNotes)
    /\ args = <<>>
    /\ result = <<>>
    /\ aliased = FALSE
    /\ prev = 0
    /\ rng = <<>>
    /\ IdleMidi
    /\ out_file = NoFile
    /\ IdleRequest

DetectKeyCall ==
    /\ call = "none"
    /\ call' = "detect_key"
    /\ result' = detect_key(notes)
    /\ UNCHANGED <<notes, args, aliased, prev, rng, midiVars, out_file,
                 extendVars, requestVars>>

NextKey == DetectKeyCall

SpecKey == InitKey /\ [][NextKey]_vars

\* Twice the fit score times the total weight, from the notes themselves:
\* the duration in the scale minus half the duration outside it.
RECURSIVE FitTwice(_, _, _)
FitTwice(ns, root, scale_name) ==
    IF ns = <<>> THEN 0
    ELSE LET note == ns[1]
             d    == note.end - note.start
         IN  (IF (note.midi - root) % 12 \in Range(SCALES[scale_name])
              THEN 2 * d ELSE -d)
             + FitTwice(Tail(ns), root, scale_name)

\* The place of a (root name, scale name) pair in the enumeration order.
KeyOrder(key) ==
    NoteIndex(key[1]) * Len(scales_to_try)
        + (CHOOSE i \in 1..Len(scales_to_try) : scales_to_try[i] = key[2]) - 1

FitOfOrder(ns, k) ==
    FitTwice(ns, k \div Len(scales_to_try),
             scales_to_try[(k % Len(scales_to_try)) + 1])

\* C4: for a nonempty list of positive-duration notes detect_key returns the
\* (root, scale) pair of maximal fit score over the 12 roots x 7 candidate
\* scales, the first such pair in the order root 0..11 (outer), scale as
\* listed (inner); notes on pitch classes {0,4,7} only give (C, major).
C4_DetectKeyArgmaxFirst ==
    (call = "detect_key" /\ notes # <<>>)
        => LET chosen == KeyOrder(result)
               best   == FitOfOrder(notes, chosen)
           IN  /\ \A k \in 0..(12 * Len(scales_to_try) - 1) :
                    /\ FitOfOrder(notes, k) <= best
                    /\ (k < chosen => FitOfOrder(notes, k) < best)
               /\ ({notes[i].midi % 12 : i \in 1..Len(notes)}
                        \subseteq {0, 4, 7}
                     => result = <<"C", "major">>)

\* A detection whose maximal score is shared by several candidates, the
\* first of which is not the first candidate of the enumeration.
C4_Witness ==
    /\ call = "detect_key"
    /\ Len(notes) >= 2
    /\ KeyOrder(result) > 0
    /\ \E k \in 0..(12 * Len(scales_to_try) - 1) :
          /\ k > KeyOrder(result)
          /\ FitOfOrder(notes, k) = FitOfOrder(notes, KeyOrder(result))
(***************************************************************************)
(* rhythm_processor.py: detect_tempo                                       *)
(***************************************************************************)
DefaultBpm == 120

HistogramBins == 20

\* n/d >= k and n/d <= k for d > 0, without forming k * d.
FracAtLeast(n, d, k) == n \div d >= k

FracAtMost(n, d, k) == (n \div d < k) \/ (n \div d = k /\ n % d = 0)

\* round(2 * n / d) for n >= 0, d > 0, without forming 2 * n.
RoundTwice(n, d) == 2 * (n \div d) + Round(2 * (n % d), d)

\* np.diff(onsets)
Diffs(ns) == [i \in 1..(Len(ns) - 1) |-> ns[i + 1].start - ns[i].start]

\* intervals[(intervals > 0.1) & (intervals < 2.0)]
KeptIntervals(ns) ==
    SelectSeq(Diffs(ns), LAMBDA d : d > 100000 /\ d < 2000000)

SeqMin(s) == CHOOSE x \in Range(s) : \A y \in Range(s) : x <= y

SeqMax(s) == CHOOSE x \in Range(s) : \A y \in Range(s) : x >= y

\* np.histogram's range: (min, max), widened by 0.5 s each side when empty.
HistLo(s) == IF SeqMin(s) = SeqMax(s) THEN SeqMin(s) - 500000 ELSE SeqMin(s)

HistHi(s) == IF SeqMin(s) = SeqMax(s) THEN SeqMax(s) + 500000 ELSE SeqMax(s)

\* The bin of value v: bins are half-open but for the last one, which also
\* holds the maximum.
BinOf(s, v) ==
    Min(HistogramBins - 1,
        ((v - HistLo(s)) * HistogramBins) \div (HistHi(s) - HistLo(s)))

\* hist[k], k = 0..19
Hist(s) ==
    [k \in 0..(HistogramBins - 1) |->
        Cardinality({i \in 1..Len(s) : BinOf(s, s[i]) = k})]

\* np.argmax(hist): the first bin of the greatest count.
ArgMaxHist(s) ==
    LET h == Hist(s)
    IN  CHOOSE k \in DOMAIN h :
            \A j \in DOMAIN h : h[j] <= h[k] /\ (h[j] = h[k] => k <= j)

\* The centre of the modal bin instead of its left edge, times HistogramBins.
ModalCentreTimesBins(s) ==
    HistogramBins * HistLo(s) + ArgMaxHist(s) * (HistHi(s) - HistLo(s))
        + (HistHi(s) - HistLo(s)) \div 2

\* most_common_interval = bins[argmax]: the left edge of the modal bin,
\* times HistogramBins (the edge itself need not be a whole microsecond).
ModalEdgeTimesBins(s) ==
    HistogramBins * HistLo(s) + ArgMaxHist(s) * (HistHi(s) - HistLo(s))

\* The selection among the candidates bpm_quarter = n/d and bpm_eighth =
\* n/(2d): lines 211-222.
PickBpm(n, d) ==
    IF FracAtLeast(n, d, 60) /\ FracAtMost(n, d, 180) THEN Round(n, d)
    ELSE IF FracAtLeast(n, 2 * d, 60) /\ FracAtMost(n, 2 * d, 180)
         THEN Round(n, 2 * d)
    ELSE IF ~FracAtLeast(n, d, 60) THEN RoundTwice(n, d)
    ELSE IF ~FracAtMost(n, d, 180) THEN Round(n, 2 * d)
    ELSE DefaultBpm

detect_tempo(ns) ==
    IF Len(ns) < 4 THEN DefaultBpm
    ELSE LET intervals == KeptIntervals(ns)
         IN  IF Len(intervals) = 0 THEN DefaultBpm
             ELSE \* bpm_quarter = 60 / most_common_interval
                  PickBpm(60000000 * HistogramBins,
                          ModalEdgeTimesBins(intervals))

(***************************************************************************)
(* Specification SpecTempo: detect_tempo on lists of notes whose onsets    *)
(* are spaced by the intervals of TempoIntervals.                          *)
(***************************************************************************)
MaxTempoNotes == 5

TempoIntervals ==
    {50000, 120000, 250000, 340000, 500000, 1000000, 1500000, 2500000}

RECURSIVE TempoNoteLists(_)
TempoNoteLists(n) ==
    IF n = 0 THEN {<<>>}
    ELSE LET shorter == TempoNoteLists(n - 1)
             full    == {l \in shorter : Len(l) = n - 1}
         IN  shorter \cup
             {Append(l, Note(60, l[Len(l)].start + d,
                             l[Len(l)].start + d + 100000)) :
                 l \in full \ {<<>>}, d \in TempoIntervals}
             \cup (IF n = 1 THEN {<<Note(60, 0, 100000)>>} ELSE {})

InitTempo ==
    /\ call = "none"
    /\ notes \in TempoNoteLists(MaxTempoNotes)
    /\ args = <<>>
    /\ result = 0
    /\ aliased = FALSE
    /\ prev = 0
    /\ rng = <<>>
    /\ IdleMidi
    /\ out_file = NoFile
    /\ IdleRequest

DetectTempoCall ==
    /\ call = "none"
    /\ call' = "detect_tempo"
    /\ result' = detect_tempo(notes)
    /\ UNCHANGED <<notes, args, aliased, prev, rng, midiVars, out_file,
                 extendVars, requestVars>>

NextTempo == DetectTempoCall

SpecTempo == InitTempo /\ [][NextTempo]_vars

\* C5: for every note list detect_tempo returns a BPM in [60, 180].
C5_TempoInRange ==
    call = "detect_tempo" => (60 <= result /\ result <= 180)

\* The onsets of the list are spaced by d, each after the one before.
EvenlySpaced(ns, d) ==
    \A i \in 1..(Len(ns) - 1) : ns[i + 1].start - ns[i].start = d

\* C14: for a list of at least 4 notes whose onsets are evenly spaced by d
\* with 60/d in [60, 180], detect_tempo returns round(60/d); onsets 0.0,
\* 0.5, 1.0, 1.5, 2.0 give 120.
C14_EvenOnsetsGiveTempo ==
    call = "detect_tempo" =>
        \A d \in TempoIntervals :
            (/\ Len(notes) >= 4
             /\ EvenlySpaced(notes, d)
             /\ d <= 1000000
             /\ 3 * d >= 1000000)
            => result = Round(60000000, d)

\* The scenario of the specification: onsets 0.0, 0.5, 1.0, 1.5, 2.0.
C14_Witness ==
    /\ call = "detect_tempo"
    /\ Len(notes) = 5
    /\ notes[1].start = 0
    /\ EvenlySpaced(notes, 500000)
    /\ result = 120

(***************************************************************************)
(* Sorting by start time: list.sort / sorted with key n["start"], which    *)
(* are stable.                                                             *)
(***************************************************************************)
RECURSIVE InsertByStart(_, _)
InsertByStart(sorted, n) ==
    IF sorted = <<>> THEN <<n>>
    ELSE IF sorted[Len(sorted)].start <= n.start THEN Append(sorted, n)
    ELSE Append(InsertByStart(SubSeq(sorted, 1, Len(sorted) - 1), n),
                sorted[Len(sorted)])

\* A sort that was forgotten: the list as it is.
Unsorted(ns) == ns

RECURSIVE SortByStart(_)
SortByStart(ns) ==
    IF ns = <<>> THEN <<>>
    ELSE InsertByStart(SortByStart(SubSeq(ns, 1, Len(ns) - 1)), ns[Len(ns)])

(***************************************************************************)
(* melody_generator.py: notes_to_midi                                      *)
(***************************************************************************)
\* mido.MidiFile().ticks_per_beat, the library's default resolution
ticks_per_beat == 480

\* the default of the tempo_bpm parameter, which hum_to_melody leaves as is
tempo_bpm == 120

\* ticks_per_beat / seconds_per_beat with seconds_per_beat = 60 / tempo_bpm
ticks_per_second == (ticks_per_beat * tempo_bpm) \div 60

\* int(round(sec * ticks_per_second))
TickOf(t) == Round(t * ticks_per_second, 1000000)

NoteOn(n, delta) ==
    [type |-> "note_on", note |-> n.midi, velocity |-> 90, time |-> delta]

NoteOff(n, dur_ticks) ==
    [type |-> "note_off", note |-> n.midi, velocity |-> 0, time |-> dur_ticks]

\* The tick length of the note-off: dur_sec = max(0.05, end_sec - start_sec)
\* is computed and never read; dur_ticks = max(1, end_tick - start_tick).
DurTicks(n) ==
    LET dur_sec    == Max(50000, n.end - n.start)
        start_tick == TickOf(n.start)
        end_tick   == TickOf(n.end)
    IN  Max(1, end_tick - start_tick)

\* mid = MidiFile(); track = MidiTrack(); set_tempo; notes_sorted; last_tick
MidiBegin ==
    /\ pc = "idle"
    /\ call = "none"
    /\ pc' = "loop"
    /\ queue' = SortByStart(notes)
    /\ last_tick' = 0
    /\ track' = <<[type |-> "set_tempo", note |-> 0, velocity |-> 0,
                   time |-> 0]>>
    /\ UNCHANGED <<call, notes, args, result, aliased, prev, rng,
                   out_file, extendVars, requestVars>>

\* One iteration of "for n in notes_sorted".
MidiNote ==
    /\ pc = "loop"
    /\ queue # <<>>
    /\ LET n          == Head(queue)
           start_tick == TickOf(n.start)
           dur_ticks  == DurTicks(n)
           delta      == Max(0, start_tick - last_tick)
       IN  /\ track' = track \o <<NoteOn(n, delta), NoteOff(n, dur_ticks)>>
           /\ last_tick' = start_tick + dur_ticks
    /\ queue' = Tail(queue)
    /\ UNCHANGED <<pc, call, notes, args, result, aliased, prev, rng,
                   out_file, extendVars, requestVars>>

\* mid.save(out_path)
MidiSave ==
    /\ pc = "loop"
    /\ queue = <<>>
    /\ pc' = "saved"
    /\ call' = "notes_to_midi"
    /\ UNCHANGED <<queue, last_tick, track, notes, args, result, aliased, prev,
                   rng, out_file, extendVars, requestVars>>

(***************************************************************************)
(* Specification SpecMidi: notes_to_midi on lists that hold overlapping,   *)
(* zero-duration and negative-duration notes, in any order.                *)
(***************************************************************************)
MaxMidiNotes == 3

MidiSpans ==
    {<<0, 1000000>>, <<500000, 1500000>>, <<500000, 500000>>,
     <<1000000, 900000>>, <<2000000, 2100000>>, <<0, 20000>>}

MidiNotePitches == {60, 64}

RECURSIVE MidiNoteLists(_)
MidiNoteLists(n) ==
    IF n = 0 THEN {<<>>}
    ELSE LET shorter == MidiNoteLists(n - 1)
         IN  shorter \cup
             {Append(l, Note(p, sp[1], sp[2])) :
                 l \in {x \in shorter : Len(x) = n - 1},
                 p \in MidiNotePitches, sp \in MidiSpans}

InitMidi ==
    /\ call = "none"
    /\ notes \in MidiNoteLists(MaxMidiNotes)
    /\ args = <<>>
    /\ result = 0
    /\ aliased = FALSE
    /\ prev = 0
    /\ rng = <<>>
    /\ IdleMidi
    /\ out_file = NoFile
    /\ IdleRequest

NextMidi == MidiBegin \/ MidiNote \/ MidiSave

SpecMidi == InitMidi /\ [][NextMidi]_vars

\* The absolute tick of the i-th message of the track: the sum of the
\* delta-times up to it.
RECURSIVE AbsTick(_, _)
AbsTick(tr, i) == IF i = 0 THEN 0 ELSE tr[i].time + AbsTick(tr, i - 1)

\* The notes rendered so far, in rendering order.
Rendered == SubSeq(SortByStart(notes), 1, (Len(track) - 1) \div 2)

\* C7: the renderer's running position last_tick always equals the absolute
\* tick of the last emitted event, so a note that starts at or after the
\* previous note-off's absolute tick gets its note-on at exactly its own
\* start tick, overlaps before it or not.
C7_NoDriftAfterOverlap ==
    pc \in {"loop", "saved"}
        => /\ last_tick = AbsTick(track, Len(track))
           /\ \A j \in 2..Len(Rendered) :
                 TickOf(Rendered[j].start) >= AbsTick(track, 2 * j - 1)
                     => AbsTick(track, 2 * j) = TickOf(Rendered[j].start)

\* The tick equivalent of 50 ms.
MinDurTicks == TickOf(50000)

\* C8: every note-off comes at least 1 tick and at least the tick
\* equivalent of 50 ms after its note-on, for zero-duration and
\* negative-duration notes too.
C8_NoteOffMinDuration ==
    \A i \in 1..Len(track) :
        track[i].type = "note_off"
            => track[i].time >= 1 /\ track[i].time >= MinDurTicks
(***************************************************************************)
(* np.random: the generator's coming outputs are the cyclic sequence rng   *)
(* of values of random() in percent; a call reads them in order.           *)
(***************************************************************************)
\* The k-th coming output, k = 1, 2, ...
Draw(stream, k) == stream[((k - 1) % Len(stream)) + 1]

\* The generator after n outputs were read.
Advance(stream, n) ==
    IF stream = <<>> THEN stream
    ELSE [i \in 1..Len(stream) |-> Draw(stream, i + n)]

\* np.random.uniform(-m, m) from the output u: -m + (m - (-m)) * u
Uniform(m, u) == -m + (2 * m * u) \div 100

(***************************************************************************)
(* rhythm_processor.py: quantize_rhythm                                    *)
(***************************************************************************)
\* grid_divisions.get(grid, 0.5) as <<numerator, denominator>>
GridDivision(grid) ==
    CASE grid = "1/4"  -> <<1, 1>>
      [] grid = "1/8"  -> <<1, 2>>
      [] grid = "1/16" -> <<1, 4>>
      [] grid = "1/32" -> <<1, 8>>
      [] OTHER         -> <<1, 2>>

\* grid_size = (60.0 / bpm) * grid_divisions.get(grid, 0.5)
GridSize(grid, bpm) ==
    (60000000 * GridDivision(grid)[1]) \div (bpm * GridDivision(grid)[2])

\* get_groove_pattern: the swing offsets in percent of a grid cell.
GroovePattern(template) ==
    CASE template = "swing"    -> <<0, 15, 0, 15, 0, 15, 0, 15>>
      [] template = "afrobeat" -> <<0, 5, 10, 0, 8, 0, 12, 5>>
      [] template = "trap"     -> <<0, 0, 20, 0, 10, 0, 15, 0>>
      [] template = "shuffle"  -> <<0, 25, 0, 25, 0, 25, 0, 25>>
      [] template = "drunk"    -> <<2, -3, 4, -2, 3, -4, 1, -1>>
      [] OTHER                 -> <<0, 0, 0, 0, 0, 0, 0, 0>>

\* The whole cells the duration covers, at least one.
DurationGridsTruncated(duration, grid_size) ==
    Max(1, duration \div grid_size)

\* duration_grids = max(1, round(duration / grid_size))
DurationGrids(duration, grid_size) == Max(1, Round(duration, grid_size))

\* quantized_end = max(quantized_start + 0.05, quantized_end)
ClampEnd(quantized_start, quantized_end) ==
    Max(quantized_start + 50000, quantized_end)

\* The body of the loop over the notes, lines 47-78; u is the output of
\* np.random the note reads when humanize > 0.
QuantizeNote(note, grid_size, groove, humanize, u) ==
    LET duration      == note.end - note.start
        grid_position == Round(note.start, grid_size)
        groove_index  == grid_position % Len(groove)
        swing_offset  == (groove[groove_index + 1] * grid_size) \div 100
        max_deviation == (grid_size * 30 * humanize) \div 10000
        random_offset == IF humanize > 0 THEN Uniform(max_deviation, u)
                         ELSE 0
        swung         == grid_position * grid_size + swing_offset
                             + random_offset
        quantized_end == swung + DurationGrids(duration, grid_size) * grid_size
        quantized_start == Max(0, swung)
    IN  Note(note.midi, quantized_start,
             ClampEnd(quantized_start, quantized_end))

\* The sorted list returned as it is, its first start left where it was.
NotRebased(ns) == ns

\* "Normalize to start at 0": every start and end minus the first start.
Rebase(ns) ==
    [i \in 1..Len(ns) |->
        Note(ns[i].midi, ns[i].start - ns[1].start, ns[i].end - ns[1].start)]

quantize_rhythm(ns, grid, bpm, humanize, groove_template, stream) ==
    IF ns = <<>> THEN <<>>
    ELSE LET grid_size == GridSize(grid, bpm)
             groove    == GroovePattern(groove_template)
             quantized_notes ==
                 [i \in 1..Len(ns) |->
                     QuantizeNote(ns[i], grid_size, groove, humanize,
                                  IF humanize > 0 THEN Draw(stream, i) ELSE 0)]
         IN  Rebase(SortByStart(quantized_notes))

\* The outputs of np.random one call of quantize_rhythm reads.
RhythmDraws(ns, humanize) == IF humanize > 0 THEN Len(ns) ELSE 0

(***************************************************************************)
(* Specification SpecRhythm: quantize_rhythm, and quantize_rhythm again on *)
(* what it returned, with the same grid, bpm, groove and humanize.  The    *)
(* notes are placed relative to the grid cell: on it or off it.            *)
(***************************************************************************)
MaxRhythmNotes == 2

RngPeriod == 2

RhythmGrids == {"1/8", "1/32"}

RhythmBpms == {120, 200, 250}

RhythmGrooves == {"straight", "swing", "drunk"}

RhythmHumanize == {0, 50}

RhythmRandom == {0, 90}

\* <<cells before the start, offset of the start, cells of length, offset
\* of the length>>
RhythmShapes ==
    {<<a, sh[1], sh[2], sh[3]>> :
        a \in {0, 2}, sh \in {<<0, 1, 0>>, <<0, 2, 0>>, <<20000, 1, 20000>>}}

RECURSIVE RhythmNoteLists(_, _)
RhythmNoteLists(n, cell) ==
    IF n = 0 THEN {<<>>}
    ELSE LET shorter == RhythmNoteLists(n - 1, cell)
         IN  shorter \cup
             {Append(l, Note(59 + n, sh[1] * cell + sh[2],
                             sh[1] * cell + sh[2] + sh[3] * cell + sh[4])) :
                 l \in {x \in shorter : Len(x) = n - 1}, sh \in RhythmShapes}

Streams(values) == [1..RngPeriod -> values]

InitRhythm ==
    /\ call = "none"
    /\ args \in [grid : RhythmGrids, bpm : RhythmBpms,
                 humanize : RhythmHumanize, groove_template : RhythmGrooves]
    /\ notes \in RhythmNoteLists(MaxRhythmNotes, GridSize(args.grid, args.bpm))
    /\ rng \in IF args.humanize > 0 THEN Streams(RhythmRandom) ELSE {<<0>>}
    /\ result = <<>>
    /\ aliased = FALSE
    /\ prev = <<>>
    /\ IdleMidi
    /\ out_file = NoFile
    /\ IdleRequest

\* notes = quantize_rhythm(notes, grid, bpm, humanize, groove_template)
QuantizeRhythmCall ==
    /\ call = "none"
    /\ call' = "quantize_rhythm"
    /\ result' = quantize_rhythm(notes, args.grid, args.bpm, args.humanize,
                                 args.groove_template, rng)
    /\ rng' = Advance(rng, RhythmDraws(notes, args.humanize))
    /\ aliased' = FALSE
    /\ UNCHANGED <<notes, args, prev, midiVars, out_file,
                 extendVars, requestVars>>

\* quantize_rhythm on the list the first call returned.
RequantizeCall ==
    /\ call = "quantize_rhythm"
    /\ call' = "requantize"
    /\ prev' = result
    /\ result' = quantize_rhythm(result, args.grid, args.bpm, args.humanize,
                                 args.groove_template, rng)
    /\ rng' = Advance(rng, RhythmDraws(result, args.humanize))
    /\ aliased' = FALSE
    /\ UNCHANGED <<notes, args, midiVars, out_file, extendVars, requestVars>>

NextRhythm == QuantizeRhythmCall \/ RequantizeCall

SpecRhythm == InitRhythm /\ [][NextRhythm]_vars

\* The list lies on the grid: every start a whole number >= 0 of cells,
\* every duration a whole number >= 1 of cells.
GridAligned(ns, cell) ==
    \A i \in 1..Len(ns) :
        /\ ns[i].start >= 0
        /\ ns[i].start % cell = 0
        /\ ns[i].end - ns[i].start >= cell
        /\ (ns[i].end - ns[i].start) % cell = 0

IdempotenceCase ==
    /\ call = "requantize"
    /\ notes # <<>>
    /\ GridAligned(notes, GridSize(args.grid, args.bpm))
    /\ args.humanize = 0
    /\ args.groove_template = "straight"

\* C9 as stated: for a grid-aligned list, humanize = 0 and the straight
\* groove, quantize_rhythm(Q) = Q for Q = quantize_rhythm(notes), for any
\* grid and bpm.
C9_IdempotentAnyCell == IdempotenceCase => result = prev

\* C9 amended: the same, for the grids and tempos whose cell is longer than
\* 1/30 s (so that the 50 ms minimum length is less than 1.5 cells).
C9_IdempotentOnAligned ==
    (IdempotenceCase /\ 3 * GridSize(args.grid, args.bpm) > 100000)
        => result = prev

\* A grid-aligned list of two notes, not in start order, on a cell shorter
\* than 50 ms, whose one-cell note was lengthened to 50 ms by the first
\* call and is returned as it was by the second.
C9_Witness ==
    /\ IdempotenceCase
    /\ 3 * GridSize(args.grid, args.bpm) > 100000
    /\ GridSize(args.grid, args.bpm) < 50000
    /\ Len(notes) = 2
    /\ notes[1].start > notes[2].start
    /\ \E i \in 1..Len(prev) : prev[i].end - prev[i].start = 50000
    /\ result = prev

\* The list the last call of quantize_rhythm was given.
RhythmInput == IF call = "requantize" THEN prev ELSE notes

NearestCells(d, cell) ==
    CHOOSE k \in 0..(d \div cell + 1) :
        \/ 2 * (d - k * cell) < cell /\ 2 * (k * cell - d) < cell
        \/ 2 * (d - k * cell) = cell /\ k % 2 = 0
        \/ 2 * (k * cell - d) = cell /\ k % 2 = 0

\* The output note made from the input note n has the duration len.
OutputDuration(n, len) ==
    \E j \in 1..Len(result) :
        /\ result[j].midi = n.midi
        /\ result[j].end - result[j].start = len

\* C20 as stated: with humanize = 0, for every grid, bpm and groove
\* template, each output note lasts max(1, round(d / cell)) cells, d the
\* duration of the input note.
C20_WholeCells ==
    (call # "none" /\ args.humanize = 0)
        => /\ Len(result) = Len(RhythmInput)
           /\ \A i \in 1..Len(RhythmInput) :
                  LET cell == GridSize(args.grid, args.bpm)
                      d    == RhythmInput[i].end - RhythmInput[i].start
                  IN  OutputDuration(RhythmInput[i],
                                     Max(1, NearestCells(d, cell)) * cell)

\* C20 amended: with humanize = 0 and input starts >= 0, each output note
\* lasts max(0.05 s, max(1, round(d / cell)) cells): a whole number of
\* cells unless that is shorter than 50 ms.
C20_WholeCellsOrMinimum ==
    (/\ call # "none"
     /\ args.humanize = 0
     /\ \A i \in 1..Len(RhythmInput) : RhythmInput[i].start >= 0)
        => /\ Len(result) = Len(RhythmInput)
           /\ \A i \in 1..Len(RhythmInput) :
                  LET cell == GridSize(args.grid, args.bpm)
                      d    == RhythmInput[i].end - RhythmInput[i].start
                  IN  OutputDuration(RhythmInput[i],
                          Max(50000, Max(1, NearestCells(d, cell)) * cell))

\* A strict call with a groove on two notes, on a cell shorter than 50 ms:
\* the one-cell note comes back 50 ms long, which is no whole number of
\* cells, the other two cells long after rounding up.
C20_Witness ==
    /\ call = "quantize_rhythm"
    /\ args.humanize = 0
    /\ args.groove_template # "straight"
    /\ GridSize(args.grid, args.bpm) < 50000
    /\ Len(notes) = 2
    /\ notes[1].end - notes[1].start = GridSize(args.grid, args.bpm)
    /\ notes[2].end - notes[2].start > GridSize(args.grid, args.bpm)
    /\ OutputDuration(notes[1], 50000)
    /\ 50000 % GridSize(args.grid, args.bpm) # 0
    /\ OutputDuration(notes[2], 2 * GridSize(args.grid, args.bpm))
(***************************************************************************)
(* melody_enhancer.py: the enhancers.  Each operator gives the returned    *)
(* list; XxxReturnsInput tells when the code returns the list object it    *)
(* was given instead of a new list.  The enhancers that read np.random     *)
(* give [out, used]: the list and the number of outputs read.              *)
(***************************************************************************)
\* smooth_melody, lines 67-85: the smoothed list of the first k notes.
RECURSIVE SmoothedUpTo(_, _, _, _, _)
SmoothedUpTo(ns, k, intensity, root, scale) ==
    IF k = 1 THEN <<ns[1]>>
    ELSE LET smoothed  == SmoothedUpTo(ns, k - 1, intensity, root, scale)
             prev_midi == smoothed[k - 1].midi
             curr_midi == ns[k].midi
             interval  == curr_midi - prev_midi
             sign      == IF interval > 0 THEN 1 ELSE -1
             target_midi == prev_midi + sign * Min(Abs(interval), 3)
             blended   == Trunc(curr_midi * (100 - intensity)
                                    + target_midi * intensity, 100)
             new_midi  == IF Abs(interval) > 5
                          THEN quantize_to_scale(blended, root, scale)
                          ELSE curr_midi
         IN  Append(smoothed, Note(new_midi, ns[k].start, ns[k].end))

\* if len(notes) < 2: return notes
SmoothReturnsInput(ns) == Len(ns) < 2

\* The smoothed list with every pitch after the first sent through
\* quantize_to_scale, the ones that made no jump too.
smooth_melody_requantized(ns, intensity, root, scale) ==
    IF SmoothReturnsInput(ns) THEN ns
    ELSE LET smoothed == SmoothedUpTo(ns, Len(ns), intensity, root, scale)
         IN  [i \in 1..Len(ns) |->
                 IF i = 1 THEN smoothed[1]
                 ELSE Note(quantize_to_scale(smoothed[i].midi, root, scale),
                           smoothed[i].start, smoothed[i].end)]

smooth_melody(ns, intensity, root, scale) ==
    IF SmoothReturnsInput(ns) THEN ns
    ELSE SmoothedUpTo(ns, Len(ns), intensity, root, scale)

\* The duration scaled by 1.0 - intensity, without the factor 0.7.
StaccatoDurationUnscaled(duration, intensity) ==
    Max(50000, (duration * (100 - intensity)) \div 100)

\* staccato_duration = max(0.05, duration * (1.0 - intensity * 0.7))
StaccatoDuration(duration, intensity) ==
    Max(50000, (duration * (1000 - 7 * intensity)) \div 1000)

bounce_melody(ns, intensity, root, scale) ==
    [i \in 1..Len(ns) |->
        Note(ns[i].midi, ns[i].start,
             ns[i].start + StaccatoDuration(ns[i].end - ns[i].start,
                                            intensity))]

\* The fill notes with num_fill_notes = interval // 2, not capped at 3.
TrapFillsUncapped(curr_note, next_note, root, scale) ==
    LET interval       == Abs(next_note.midi - curr_note.midi)
        gap_time       == next_note.start - curr_note.end
        num_fill_notes == interval \div 2
        fill_duration  == gap_time \div (num_fill_notes + 1)
        direction      == IF next_note.midi > curr_note.midi THEN 1 ELSE -1
        step_size      == interval \div (num_fill_notes + 1)
    IN  [j \in 1..num_fill_notes |->
            Note(quantize_to_scale(curr_note.midi + direction * step_size * j,
                                   root, scale),
                 curr_note.end + fill_duration * (j - 1),
                 curr_note.end + fill_duration * (j - 1)
                     + (fill_duration * 7) \div 10)]

\* trap_run_melody, lines 164-182: the fill notes between curr and next.
TrapFills(curr_note, next_note, root, scale) ==
    LET interval       == Abs(next_note.midi - curr_note.midi)
        gap_time       == next_note.start - curr_note.end
        num_fill_notes == Min(3, interval \div 2)
        fill_duration  == gap_time \div (num_fill_notes + 1)
        direction      == IF next_note.midi > curr_note.midi THEN 1 ELSE -1
        step_size      == interval \div (num_fill_notes + 1)
    IN  [j \in 1..num_fill_notes |->
            Note(quantize_to_scale(curr_note.midi + direction * step_size * j,
                                   root, scale),
                 curr_note.end + fill_duration * (j - 1),
                 curr_note.end + fill_duration * (j - 1)
                     + (fill_duration * 7) \div 10)]

\* trap_run_melody, lines 149-182, from pair i on; acc is trap_notes, k the
\* number of outputs of np.random read so far.
RECURSIVE TrapLoop(_, _, _, _, _, _, _, _)
TrapLoop(ns, i, acc, intensity, root, scale, stream, k) ==
    IF i = Len(ns) THEN [out |-> Append(acc, ns[Len(ns)]), used |-> k]
    ELSE LET curr_note == ns[i]
             next_note == ns[i + 1]
             interval  == Abs(next_note.midi - curr_note.midi)
             reads     == IF interval > 3 THEN 1 ELSE 0
             runs      == /\ interval > 3
                          /\ Draw(stream, k + 1) < intensity
                          /\ next_note.start - curr_note.end > 150000
             fills     == IF runs
                          THEN TrapFills(curr_note, next_note, root, scale)
                          ELSE <<>>
         IN  TrapLoop(ns, i + 1, Append(acc, curr_note) \o fills,
                      intensity, root, scale, stream, k + reads)

\* if len(notes) < 2: return notes
TrapReturnsInput(ns) == Len(ns) < 2

trap_run_melody(ns, intensity, root, scale, stream) ==
    IF TrapReturnsInput(ns) THEN [out |-> ns, used |-> 0]
    ELSE TrapLoop(ns, 1, <<>>, intensity, root, scale, stream, 0)

\* The offset as a whole 16th-note cell times the intensity.
SyncopationOffsetFullCell(intensity) == (125000 * intensity) \div 100

\* offset = grid_size * 0.3 * intensity with grid_size = 0.5 / 4 s
SyncopationOffset(intensity) == (125000 * 30 * intensity) \div 10000

\* afro_vibe_melody, lines 210-239, from note i on (i = 1 is index 0).
RECURSIVE AfroLoop(_, _, _, _, _, _)
AfroLoop(ns, i, acc, intensity, stream, k) ==
    IF i > Len(ns) THEN [out |-> acc, used |-> k]
    ELSE LET note     == ns[i]
             offset   == IF (i - 1) % 2 = 1 /\ intensity > 30
                         THEN SyncopationOffset(intensity) ELSE 0
             new_note == Note(note.midi, note.start + offset,
                              note.end + offset)
             gap      == IF i < Len(ns) THEN ns[i + 1].start - note.end
                         ELSE 0
             reads    == IF intensity > 60 /\ i < Len(ns) /\ gap > 200000
                         THEN 1 ELSE 0
             stutter  == reads = 1 /\ Draw(stream, k + 1) < 30
             repeat_duration == Min(100000, (gap * 4) \div 10)
             repeat_note ==
                 Note(note.midi, note.end + (gap * 3) \div 10,
                      note.end + (gap * 3) \div 10 + repeat_duration)
         IN  AfroLoop(ns, i + 1,
                      IF stutter THEN acc \o <<new_note, repeat_note>>
                      ELSE Append(acc, new_note),
                      intensity, stream, k + reads)

afro_vibe_melody(ns, intensity, root, scale, stream) ==
    LET r == AfroLoop(ns, 1, <<>>, intensity, stream, 0)
    IN  [out |-> SortByStart(r.out), used |-> r.used]

\* choir_harmony, lines 267-310: a note and the harmony notes above it.
ChoirVoices(note, intensity, root, scale) ==
    LET duration == note.end - note.start
        third_up == IF scale \in {"major", "major_pentatonic", "lydian",
                                  "mixolydian"}
                    THEN note.midi + 4 ELSE note.midi + 3
        third    == IF intensity > 30
                    THEN <<Note(quantize_to_scale(third_up, root, scale),
                                note.start + 20000,
                                note.start + (duration * 8) \div 10)>>
                    ELSE <<>>
        fifth    == IF intensity > 60
                    THEN <<Note(quantize_to_scale(note.midi + 7, root, scale),
                                note.start + 40000,
                                note.start + (duration * 7) \div 10)>>
                    ELSE <<>>
        octave   == IF intensity > 80
                    THEN <<Note(Min(127, note.midi + 12),
                                note.start + 10000,
                                note.start + (duration * 9) \div 10)>>
                    ELSE <<>>
    IN  <<note>> \o third \o fifth \o octave

RECURSIVE ChoirLoop(_, _, _, _)
ChoirLoop(ns, intensity, root, scale) ==
    IF ns = <<>> THEN <<>>
    ELSE ChoirVoices(ns[1], intensity, root, scale)
             \o ChoirLoop(Tail(ns), intensity, root, scale)

choir_harmony(ns, intensity, root, scale) ==
    SortByStart(ChoirLoop(ns, intensity, root, scale))
\* np.random.choice([12, -12, 7, -7, 0]) from the output u.
Variations == <<12, -12, 7, -7, 0>>

Choice(u) == Variations[((u * Len(Variations)) \div 100) + 1]

\* extend_melody_duration, lines 439-450: one repetition of the melody
\* shifted by offset, from note i on.
RECURSIVE Repetition(_, _, _, _, _, _)
Repetition(ns, i, offset, acc, stream, k) ==
    IF i > Len(ns) THEN [out |-> acc, used |-> k]
    ELSE LET note     == ns[i]
             varied   == Draw(stream, k + 1) < 20
             midi     == IF varied
                         THEN Max(36, Min(96, note.midi
                                              + Choice(Draw(stream, k + 2))))
                         ELSE note.midi
             new_note == Note(midi, note.start + offset, note.end + offset)
         IN  Repetition(ns, i + 1, offset, Append(acc, new_note), stream,
                        k + (IF varied THEN 2 ELSE 1))

\* while offset < min_duration: ...; offset += current_duration
RECURSIVE ExtendLoop(_, _, _, _, _, _, _)
ExtendLoop(ns, current_duration, min_duration, offset, acc, stream, k) ==
    IF offset >= min_duration THEN [out |-> acc, used |-> k]
    ELSE LET rep == Repetition(ns, 1, offset, acc, stream, k)
         IN  ExtendLoop(ns, current_duration, min_duration,
                        offset + current_duration, rep.out, stream, rep.used)

\* current_duration = max(n["end"] for n in notes)
CurrentDuration(ns) == SeqMax([i \in 1..Len(ns) |-> ns[i].end])

\* if current_duration >= min_duration: return notes
ExtendReturnsInput(ns, min_duration) ==
    ns # <<>> /\ CurrentDuration(ns) >= min_duration

extend_melody_duration(ns, min_duration, stream) ==
    IF ns = <<>> THEN [out |-> <<>>, used |-> 0]
    ELSE IF ExtendReturnsInput(ns, min_duration)
    THEN [out |-> ns, used |-> 0]
    ELSE LET current_duration == CurrentDuration(ns)
             r == ExtendLoop(ns, current_duration, min_duration,
                             current_duration, ns, stream, 0)
         IN  [out |-> SortByStart(SelectSeq(r.out,
                         LAMBDA n : n.start < min_duration)),
              used |-> r.used]

\* audio_processing.py, second pass of extract_melody_notes: every pitch
\* through quantize_to_scale, the times kept.
QuantizedPitches(ns, root, scale) ==
    [i \in 1..Len(ns) |->
        Note(quantize_to_scale(ns[i].midi, root, scale),
             ns[i].start, ns[i].end)]
(***************************************************************************)
(* Specification SpecTransform: one call of a transform on a list of valid *)
(* Notes.  The list and the state of np.random are drawn at the start; the *)
(* arguments are drawn by the call.  aliased tells whether the call        *)
(* returned the list object it was given.                                  *)
(***************************************************************************)
MaxNotes == 2

TransformPitches == {60, 64, 120}

\* <<start, end>> of a note, in microseconds
TransformSpans ==
    {<<0, 300000>>, <<600000, 900000>>, <<1200000, 1250000>>,
     <<1200000, 1500000>>}

TransformIntensities == {0, 20, 30, 50, 70, 100}

TransformRoots == {"C", "B"}

TransformScales == {"major", "minor"}

TransformMinDurations == {1000000, 2000000}

TransformRandom == {0, 25, 50, 75, 90}

EnhancerArgs ==
    [intensity : TransformIntensities, root : TransformRoots,
     scale : TransformScales]

RECURSIVE TransformNoteLists(_)
TransformNoteLists(n) ==
    IF n = 0 THEN {<<>>}
    ELSE LET shorter == TransformNoteLists(n - 1)
         IN  shorter \cup
             {Append(l, Note(m, sp[1], sp[2])) :
                 l \in {x \in shorter : Len(x) = n - 1},
                 m \in TransformPitches, sp \in TransformSpans}

InitTransform ==
    /\ call = "none"
    /\ notes \in TransformNoteLists(MaxNotes)
    /\ args = [intensity |-> 0]
    /\ rng \in Streams(TransformRandom)
    /\ result = <<>>
    /\ aliased = FALSE
    /\ prev = 0
    /\ IdleMidi
    /\ out_file = NoFile
    /\ IdleRequest

QuantizePitchesCall ==
    /\ call = "none"
    /\ \E a \in [root : TransformRoots, scale : TransformScales] :
          /\ args' = a
          /\ result' = QuantizedPitches(notes, a.root, a.scale)
    /\ call' = "quantize_to_scale"
    /\ aliased' = FALSE
    /\ UNCHANGED <<notes, prev, rng, midiVars, out_file,
                 extendVars, requestVars>>

RhythmCall ==
    /\ call = "none"
    /\ \E a \in [grid : {"1/16"}, bpm : {120}, humanize : RhythmHumanize,
                 groove_template : {"straight", "swing"}] :
          /\ args' = a
          /\ result' = quantize_rhythm(notes, a.grid, a.bpm, a.humanize,
                                       a.groove_template, rng)
          /\ rng' = Advance(rng, RhythmDraws(notes, a.humanize))
    /\ call' = "quantize_rhythm"
    /\ aliased' = FALSE
    /\ UNCHANGED <<notes, prev, midiVars, out_file, extendVars, requestVars>>

SmoothMelodyCall ==
    /\ call = "none"
    /\ \E a \in EnhancerArgs :
          /\ args' = a
          /\ result' = smooth_melody(notes, a.intensity, a.root, a.scale)
    /\ call' = "smooth_melody"
    /\ aliased' = SmoothReturnsInput(notes)
    /\ UNCHANGED <<notes, prev, rng, midiVars, out_file,
                 extendVars, requestVars>>

BounceMelodyCall ==
    /\ call = "none"
    /\ \E a \in EnhancerArgs :
          /\ args' = a
          /\ result' = bounce_melody(notes, a.intensity, a.root, a.scale)
    /\ call' = "bounce_melody"
    /\ aliased' = FALSE
    /\ UNCHANGED <<notes, prev, rng, midiVars, out_file,
                 extendVars, requestVars>>

TrapRunMelodyCall ==
    /\ call = "none"
    /\ \E a \in EnhancerArgs :
          LET r == trap_run_melody(notes, a.intensity, a.root, a.scale, rng)
          IN  /\ args' = a
              /\ result' = r.out
              /\ rng' = Advance(rng, r.used)
    /\ call' = "trap_run_melody"
    /\ aliased' = TrapReturnsInput(notes)
    /\ UNCHANGED <<notes, prev, midiVars, out_file, extendVars, requestVars>>

AfroVibeMelodyCall ==
    /\ call = "none"
    /\ \E a \in EnhancerArgs :
          LET r == afro_vibe_melody(notes, a.intensity, a.root, a.scale, rng)
          IN  /\ args' = a
              /\ result' = r.out
              /\ rng' = Advance(rng, r.used)
    /\ call' = "afro_vibe_melody"
    /\ aliased' = FALSE
    /\ UNCHANGED <<notes, prev, midiVars, out_file, extendVars, requestVars>>

ChoirHarmonyCall ==
    /\ call = "none"
    /\ \E a \in EnhancerArgs :
          /\ args' = a
          /\ result' = choir_harmony(notes, a.intensity, a.root, a.scale)
    /\ call' = "choir_harmony"
    /\ aliased' = FALSE
    /\ UNCHANGED <<notes, prev, rng, midiVars, out_file,
                 extendVars, requestVars>>

ExtendMelodyDurationCall ==
    /\ call = "none"
    /\ \E a \in [min_duration : TransformMinDurations] :
          LET r == extend_melody_duration(notes, a.min_duration, rng)
          IN  /\ args' = a
              /\ result' = r.out
              /\ rng' = Advance(rng, r.used)
              /\ aliased' = ExtendReturnsInput(notes, a.min_duration)
    /\ call' = "extend_melody_duration"
    /\ UNCHANGED <<notes, prev, midiVars, out_file, extendVars, requestVars>>

NextTransform ==
    \/ QuantizePitchesCall
    \/ RhythmCall
    \/ SmoothMelodyCall
    \/ BounceMelodyCall
    \/ TrapRunMelodyCall
    \/ AfroVibeMelodyCall
    \/ ChoirHarmonyCall
    \/ ExtendMelodyDurationCall

SpecTransform == InitTransform /\ [][NextTransform]_vars

ValidNote(n) == n.midi \in 0..127 /\ n.start >= 0 /\ n.end > n.start

\* C3: given a list of valid Notes, every transform returns only Notes with
\* pitch in 0..127, start >= 0 and end > start.
C3_TransformsKeepValid ==
    call # "none" => \A i \in 1..Len(result) : ValidNote(result[i])

\* C6: for a nonempty list, the output of extend_melody_duration has
\* max end >= min_duration and every output note starts before min_duration.
C6_ExtendedReachesMinDuration ==
    (call = "extend_melody_duration" /\ notes # <<>>) =>
        /\ result # <<>>
        /\ CurrentDuration(result) >= args.min_duration
        /\ \A i \in 1..Len(result) : result[i].start < args.min_duration

\* C10: a transform call leaves the input list as it was and returns a new
\* list, never the list object it was given.
C10_NoMutationNoAlias ==
    [][(call = "none" /\ call' # "none") =>
           (notes' = notes /\ ~aliased')]_vars
(***************************************************************************)
(* Specification SpecSmooth: smooth_melody on lists of up to               *)
(* MaxEnhancerNotes notes, one after the other in time, with pitches on    *)
(* and off the scales and jumps of 1, 5, 6, 11 and 12 semitones.           *)
(***************************************************************************)
MaxEnhancerNotes == 3

SmoothPitches == {60, 61, 66, 72}

RECURSIVE SmoothNoteLists(_)
SmoothNoteLists(n) ==
    IF n = 0 THEN {<<>>}
    ELSE LET shorter == SmoothNoteLists(n - 1)
         IN  shorter \cup
             {Append(l, Note(m, (n - 1) * 400000, (n - 1) * 400000 + 300000)) :
                 l \in {x \in shorter : Len(x) = n - 1}, m \in SmoothPitches}

InitSmooth ==
    /\ call = "none"
    /\ notes \in SmoothNoteLists(MaxEnhancerNotes)
    /\ args = [intensity |-> 0]
    /\ rng = <<0>>
    /\ result = <<>>
    /\ aliased = FALSE
    /\ prev = 0
    /\ IdleMidi
    /\ out_file = NoFile
    /\ IdleRequest

NextSmooth == SmoothMelodyCall

SpecSmooth == InitSmooth /\ [][NextSmooth]_vars

\* Every pitch of the list is in the scale of (root, scale).
ScaleConformant(ns, root, scale) ==
    \A i \in 1..Len(ns) : AllowedPitch(ns[i].midi, root, scale)

\* C21: smooth_melody returns as many notes as it was given, every start
\* and end and the first note as they were; a pitch differs from the
\* input's only where its interval from the previous output pitch is more
\* than 5 semitones, and is then in the scale of (root, scale); so a list
\* in the scale stays in the scale.
C21_SmoothKeepsTimesAndScale ==
    call = "smooth_melody" =>
        /\ Len(result) = Len(notes)
        /\ \A i \in 1..Len(notes) :
               /\ result[i].start = notes[i].start
               /\ result[i].end = notes[i].end
        /\ notes # <<>> => result[1] = notes[1]
        /\ \A i \in 2..Len(notes) :
               result[i].midi # notes[i].midi
                   => /\ Abs(notes[i].midi - result[i - 1].midi) > 5
                      /\ AllowedPitch(result[i].midi, args.root, args.scale)
        /\ ScaleConformant(notes, args.root, args.scale)
               => ScaleConformant(result, args.root, args.scale)

\* 60, 72, 66 in C minor at full intensity: the octave jump is cut to 63,
\* and 66, six semitones from the 72 of the input but three from the 63 of
\* the output, is left as it is although it is not in the scale.
C21_Witness ==
    /\ call = "smooth_melody"
    /\ Len(notes) = 3
    /\ args.intensity = 100
    /\ notes[2].midi - notes[1].midi = 12
    /\ result[2].midi = notes[1].midi + 3
    /\ Abs(notes[3].midi - notes[2].midi) > 5
    /\ result[3].midi = notes[3].midi
    /\ ~AllowedPitch(result[3].midi, args.root, args.scale)
    /\ AllowedPitch(result[2].midi, args.root, args.scale)

\* C22: smooth_melody with intensity 0.0 returns the original melody: every
\* output pitch, start and end equals the input's, for every list, root and
\* scale.
C22_ZeroIntensityIsIdentity ==
    (call = "smooth_melody" /\ args.intensity = 0) => result = notes
(***************************************************************************)
(* Specification SpecBounce: bounce_melody on lists of up to               *)
(* MaxEnhancerNotes notes that last 30 ms, 50 ms, 0.3 s or 1 s.            *)
(***************************************************************************)
BounceDurations == {30000, 50000, 300000, 1000000}

RECURSIVE BounceNoteLists(_)
BounceNoteLists(n) ==
    IF n = 0 THEN {<<>>}
    ELSE LET shorter == BounceNoteLists(n - 1)
         IN  shorter \cup
             {Append(l, Note(59 + n, (n - 1) * 1200000,
                             (n - 1) * 1200000 + d)) :
                 l \in {x \in shorter : Len(x) = n - 1}, d \in BounceDurations}

InitBounce ==
    /\ call = "none"
    /\ notes \in BounceNoteLists(MaxEnhancerNotes)
    /\ args = [intensity |-> 0]
    /\ rng = <<0>>
    /\ result = <<>>
    /\ aliased = FALSE
    /\ prev = 0
    /\ IdleMidi
    /\ out_file = NoFile
    /\ IdleRequest

NextBounce == BounceMelodyCall

SpecBounce == InitBounce /\ [][NextBounce]_vars

TrapPitches == {60, 63, 68}

TrapGaps == {150000, 400000}

TrapRandom == {10, 60}

RECURSIVE TrapNoteLists(_)
TrapNoteLists(n) ==
    IF n = 0 THEN {<<>>}
    ELSE LET shorter == TrapNoteLists(n - 1)
         IN  shorter \cup
             {LET start == IF l = <<>> THEN 0 ELSE l[Len(l)].end + gap
              IN  Append(l, Note(m, start, start + 200000)) :
                 l \in {x \in shorter : Len(x) = n - 1},
                 m \in TrapPitches,
                 gap \in IF n = 1 THEN {0} ELSE TrapGaps}

InitTrap ==
    /\ call = "none"
    /\ notes \in TrapNoteLists(MaxEnhancerNotes)
    /\ args = [intensity |-> 0]
    /\ rng \in Streams(TrapRandom)
    /\ result = <<>>
    /\ aliased = FALSE
    /\ prev = 0
    /\ IdleMidi
    /\ out_file = NoFile
    /\ IdleRequest

NextTrap == TrapRunMelodyCall

SpecTrap == InitTrap /\ [][NextTrap]_vars

\* The place in the output of the i-th input note: the first place after
\* that of note i - 1 that holds it, 0 when there is none.
RECURSIVE OriginalAt(_)
OriginalAt(i) ==
    IF i = 1 THEN (IF result # <<>> /\ result[1] = notes[1] THEN 1 ELSE 0)
    ELSE LET after == {j \in (OriginalAt(i - 1) + 1)..Len(result) :
                          result[j] = notes[i]}
         IN  IF OriginalAt(i - 1) = 0 \/ after = {} THEN 0
             ELSE CHOOSE j \in after : \A k \in after : j <= k

\* C24: the output of trap_run_melody holds every input note, in the input
\* order, the first first and the last last; between two adjacent input
\* notes it holds at most 3 more notes, and some only when the interval is
\* more than 3 semitones and the gap more than 0.15 s; each of these starts
\* at or after the end of the earlier note, ends before the start of the
\* later one and has a pitch in the scale; at intensity 0 the output
\* equals the input.
C24_FillsInsideGaps ==
    call = "trap_run_melody" =>
        /\ notes = <<>> => result = <<>>
        /\ notes # <<>> =>
               /\ OriginalAt(1) = 1
               /\ OriginalAt(Len(notes)) = Len(result)
        /\ \A i \in 1..(Len(notes) - 1) :
               LET fills == (OriginalAt(i) + 1)..(OriginalAt(i + 1) - 1)
               IN  /\ OriginalAt(i + 1) > OriginalAt(i)
                   /\ Cardinality(fills) <= 3
                   /\ fills # {} =>
                          /\ Abs(notes[i + 1].midi - notes[i].midi) > 3
                          /\ notes[i + 1].start - notes[i].end > 150000
                   /\ \A j \in fills :
                          /\ result[j].start >= notes[i].end
                          /\ result[j].end < notes[i + 1].start
                          /\ AllowedPitch(result[j].midi, args.root,
                                          args.scale)
        /\ args.intensity = 0 => result = notes

\* 60, 68 after a gap of 0.4 s, 63 after a gap of 0.15 s, at full
\* intensity: three fills in the first gap, the first starting at the end
\* of the 60, and none in the second, whose interval is 5 semitones.
C24_Witness ==
    /\ call = "trap_run_melody"
    /\ args.intensity = 100
    /\ Len(notes) = 3
    /\ notes[2].midi - notes[1].midi = 8
    /\ notes[2].start - notes[1].end = 400000
    /\ notes[2].midi - notes[3].midi = 5
    /\ notes[3].start - notes[2].end = 150000
    /\ Len(result) = 6
    /\ result[2].start = notes[1].end
    /\ result[4].end < notes[2].start
    /\ result[5] = notes[2]
    /\ result[6] = notes[3]
(***************************************************************************)
(* Specification SpecAfro: afro_vibe_melody on lists of up to              *)
(* MaxEnhancerNotes notes of 0.1 s or 0.35 s, the next starting 0.4 s or   *)
(* 10 ms after the one before.                                             *)
(***************************************************************************)
AfroDurations == {100000, 350000}

AfroOnsetSteps == {10000, 400000}

AfroRandom == {10, 60}

RECURSIVE AfroNoteLists(_)
AfroNoteLists(n) ==
    IF n = 0 THEN {<<>>}
    ELSE LET shorter == AfroNoteLists(n - 1)
         IN  shorter \cup
             {LET start == IF l = <<>> THEN 0 ELSE l[Len(l)].start + step
              IN  Append(l, Note(59 + n, start, start + d)) :
                 l \in {x \in shorter : Len(x) = n - 1},
                 d \in AfroDurations,
                 step \in IF n = 1 THEN {0} ELSE AfroOnsetSteps}

InitAfro ==
    /\ call = "none"
    /\ notes \in AfroNoteLists(MaxEnhancerNotes)
    /\ args = [intensity |-> 0]
    /\ rng \in Streams(AfroRandom)
    /\ result = <<>>
    /\ aliased = FALSE
    /\ prev = 0
    /\ IdleMidi
    /\ out_file = NoFile
    /\ IdleRequest

NextAfro == AfroVibeMelodyCall

SpecAfro == InitAfro /\ [][NextAfro]_vars

\* The number of places of the list that hold the note.
Occurrences(ns, n) == Cardinality({j \in 1..Len(ns) : ns[j] = n})

\* The input note at index i (from 0) moved forward by shift microseconds.
Shifted(i, shift) ==
    Note(notes[i + 1].midi, notes[i + 1].start + shift,
         notes[i + 1].end + shift)

\* The output holds, as often as the input gives them, the odd-indexed
\* notes moved forward by odd_shift and the even-indexed notes as they
\* were, and it is in start order.
AfroOutputIs(odd_shift) ==
    /\ \A i \in 0..(Len(notes) - 1) :
           LET expected == [k \in 1..Len(notes) |->
                               Shifted(k - 1, IF (k - 1) % 2 = 1
                                              THEN odd_shift ELSE 0)]
           IN  Occurrences(result, expected[i + 1])
                   >= Occurrences(expected, expected[i + 1])
    /\ \A i \in 1..Len(result) : \A j \in i..Len(result) :
           result[i].start <= result[j].start

\* C25 as stated: for every intensity in (0, 1], afro_vibe_melody moves
\* every odd-indexed note forward by 0.125 s x 0.3 x intensity, start and
\* end alike, leaves the timing of every even-indexed note, and returns
\* the list sorted by start.
C25_OddNotesShifted ==
    (call = "afro_vibe_melody" /\ args.intensity > 0)
        => AfroOutputIs(375 * args.intensity)

\* C25 amended: the same for every intensity in (0.3, 1]; for an intensity
\* of 0.3 or less no note is moved.
C25_OddNotesShiftedAboveThreshold ==
    call = "afro_vibe_melody"
        => AfroOutputIs(IF args.intensity > 30 THEN 375 * args.intensity
                        ELSE 0)

\* Full intensity on three notes, the third starting 10 ms after the
\* second: the second, moved 37.5 ms forward, comes back after the third,
\* and a repeated note fills the gap after the first.
C25_Witness ==
    /\ call = "afro_vibe_melody"
    /\ args.intensity = 100
    /\ Len(notes) = 3
    /\ notes[3].start - notes[2].start = 10000
    /\ Len(result) = 4
    /\ result[1] = notes[1]
    /\ result[2].midi = notes[1].midi
    /\ result[3] = notes[3]
    /\ result[4] = Shifted(1, 37500)
(***************************************************************************)
(* extend_melody_duration step by step: the entry with its two early       *)
(* returns, one pass of the while loop, and the trim, sort and return.     *)
(* pc is "extend" before the call, "extend_loop" at the loop test and      *)
(* "extended" after the return.  The steps leave the caller's variables    *)
(* to the action that takes them.                                          *)
(***************************************************************************)
MaxRepetitions == 40

\* The passes of the while loop made so far.
Repetitions == Len(loop_extended) \div Len(notes) - 1

\* Lines 423-434.
ExtendBegin(min_duration) ==
    /\ pc = "extend"
    /\ IF notes = <<>>
       THEN /\ result' = <<>>
            /\ aliased' = FALSE
            /\ pc' = "extended"
            /\ UNCHANGED extendVars
       ELSE IF ExtendReturnsInput(notes, min_duration)
       THEN /\ result' = notes
            /\ aliased' = TRUE
            /\ pc' = "extended"
            /\ UNCHANGED extendVars
       ELSE /\ loop_extended' = notes
            /\ loop_offset' = CurrentDuration(notes)
            /\ pc' = "extend_loop"
            /\ UNCHANGED <<result, aliased>>
    /\ UNCHANGED rng

\* Lines 437-452: the loop test passed, one repetition appended.
ExtendRepeat(min_duration) ==
    /\ pc = "extend_loop"
    /\ loop_offset < min_duration
    /\ Repetitions < MaxRepetitions
    /\ LET rep == Repetition(notes, 1, loop_offset, loop_extended, rng, 0)
       IN  /\ loop_extended' = rep.out
           /\ rng' = Advance(rng, rep.used)
    /\ loop_offset' = loop_offset + CurrentDuration(notes)
    /\ UNCHANGED <<pc, result, aliased>>

\* Lines 437 and 454-460: the loop test failed; trim, sort, return.
ExtendReturn(min_duration) ==
    /\ pc = "extend_loop"
    /\ loop_offset >= min_duration
    /\ result' = SortByStart(SelectSeq(loop_extended,
                                       LAMBDA n : n.start < min_duration))
    /\ aliased' = FALSE
    /\ pc' = "extended"
    /\ UNCHANGED <<rng, extendVars>>

(***************************************************************************)
(* Specification SpecExtend: one call of extend_melody_duration, step by   *)
(* step, on lists that hold a note that ends at 0 s, at 0.3 s or at 0.9 s. *)
(***************************************************************************)
ExtendSpans == {<<0, 0>>, <<0, 300000>>, <<600000, 900000>>}

ExtendRandom == {10, 60}

RECURSIVE ExtendNoteLists(_)
ExtendNoteLists(n) ==
    IF n = 0 THEN {<<>>}
    ELSE LET shorter == ExtendNoteLists(n - 1)
         IN  shorter \cup
             {Append(l, Note(59 + n, sp[1], sp[2])) :
                 l \in {x \in shorter : Len(x) = n - 1}, sp \in ExtendSpans}

InitExtend ==
    /\ call = "none"
    /\ notes \in ExtendNoteLists(MaxNotes)
    /\ args \in [min_duration : TransformMinDurations]
    /\ rng \in Streams(ExtendRandom)
    /\ result = <<>>
    /\ aliased = FALSE
    /\ prev = 0
    /\ pc = "extend"
    /\ queue = <<>>
    /\ last_tick = 0
    /\ track = <<>>
    /\ out_file = NoFile
    /\ IdleRequest

ExtendMelodyDurationEnter ==
    /\ ExtendBegin(args.min_duration)
    /\ call' = IF pc' = "extended" THEN "extend_melody_duration" ELSE call
    /\ UNCHANGED <<notes, args, prev, queue, last_tick, track, out_file,
                   requestVars>>

ExtendMelodyDurationRepeat ==
    /\ ExtendRepeat(args.min_duration)
    /\ UNCHANGED <<call, notes, args, prev, queue, last_tick, track, out_file,
                   requestVars>>

ExtendMelodyDurationReturn ==
    /\ ExtendReturn(args.min_duration)
    /\ call' = "extend_melody_duration"
    /\ UNCHANGED <<notes, args, prev, queue, last_tick, track, out_file,
                   requestVars>>

NextExtend ==
    \/ ExtendMelodyDurationEnter
    \/ ExtendMelodyDurationRepeat
    \/ ExtendMelodyDurationReturn

SpecExtend == InitExtend /\ [][NextExtend]_vars

\* C26: extend_melody_duration terminates for every nonempty list and every
\* min_duration, the lists whose max end is zero included, because every
\* pass of the repetition loop leaves offset strictly greater than it
\* found it, until offset reaches min_duration: a pass that does not
\* raise offset is followed by the same loop test on the same values.
C26_OffsetStrictlyIncreases ==
    [][(pc = "extend_loop" /\ pc' = "extend_loop")
           => loop_offset' > loop_offset]_vars
(***************************************************************************)
(* audio_processing.py: extract_melody_notes from the pitch trace on.      *)
(* librosa.yin gives one frequency per frame and librosa.times_like the    *)
(* time of frame i, i * hop_length / sr seconds.  In this section a time   *)
(* is a whole number of audio samples at sr = 22050 (1 s = 22050), so the  *)
(* frame times are exact.  A frame is [kind, midi10]: kind is "nan",       *)
(* "nonpositive" or "hz", and midi10 is ten times librosa.hz_to_midi of    *)
(* the frequency (604 is 60.4 semitones).                                  *)
(***************************************************************************)
yin_sr == 22050

hop_length == 512

\* The argument value None.
None == "None"

\* times[i], frames counted from 1
FrameTime(i) == (i - 1) * hop_length

\* A frame that is voiced under a test that lets non-positive frequencies in.
VoicedUnlessNaN(frame) == frame.kind # "nan"

\* not (np.isnan(freq) or freq <= 0)
Voiced(frame) == frame.kind = "hz"

\* midi = int(round(librosa.hz_to_midi(float(freq))))
FrameMidi(frame) == Round(frame.midi10, 10)

\* current_note["end"] = float(t)
Closed(current_note, t) == [current_note EXCEPT !.end = t]

\* A variant of the stream end that drops the open note.
CloseLastDropped(frames, current_note, raw_notes) == raw_notes

\* "close last note", lines 78-80; current_note is <<>> for None.
CloseLast(frames, current_note, raw_notes) ==
    IF current_note # <<>>
    THEN Append(raw_notes, Closed(current_note[1], FrameTime(Len(frames))))
    ELSE raw_notes

\* The first pass, lines 49-80, from frame i on.
RECURSIVE FirstPass(_, _, _, _)
FirstPass(frames, i, current_note, raw_notes) ==
    IF i > Len(frames) THEN CloseLast(frames, current_note, raw_notes)
    ELSE LET t    == FrameTime(i)
             midi == FrameMidi(frames[i])
         IN  IF ~Voiced(frames[i])
             THEN IF current_note # <<>>
                  THEN FirstPass(frames, i + 1, <<>>,
                                 Append(raw_notes, Closed(current_note[1], t)))
                  ELSE FirstPass(frames, i + 1, <<>>, raw_notes)
             ELSE IF current_note = <<>>
             THEN FirstPass(frames, i + 1, <<Note(midi, t, t)>>, raw_notes)
             ELSE IF midi = current_note[1].midi
             THEN FirstPass(frames, i + 1, <<Closed(current_note[1], t)>>,
                            raw_notes)
             ELSE FirstPass(frames, i + 1, <<Note(midi, t, t)>>,
                            Append(raw_notes, Closed(current_note[1], t)))

\* min_duration = 0.08 s, in samples
min_duration_samples == (8 * yin_sr) \div 100

\* raw_notes = [n for n in raw_notes if (n["end"] - n["start"]) >= 0.08]
FilterShort(raw_notes) ==
    SelectSeq(raw_notes, LAMBDA n : n.end - n.start >= min_duration_samples)

\* Lines 90-101: the key the second pass quantizes to.
ChosenKey(raw_notes, scale, root, auto_detect_key) ==
    IF auto_detect_key /\ (root = None \/ scale = None)
    THEN LET detected == detect_key(raw_notes)
         IN  [root  |-> IF root = None THEN detected[1] ELSE root,
              scale |-> IF scale = None THEN detected[2] ELSE scale]
    ELSE [root  |-> IF root = None THEN "C" ELSE root,
          scale |-> IF scale = None THEN "minor" ELSE scale]

\* A variant of the shift that leaves the times as they are.
NotShifted(ns) == ns

\* "shift notes to start at 0", lines 114-118
ShiftToZero(ns) ==
    IF ns = <<>> THEN ns
    ELSE [i \in 1..Len(ns) |->
             Note(ns[i].midi, ns[i].start - ns[1].start,
                  ns[i].end - ns[1].start)]

\* Lines 86-120: what extract_melody_notes returns once the filtered
\* raw_notes and the key are known; the local raw_notes goes with it.
ExtractReturn(raw_notes, key) ==
    IF raw_notes = <<>>
    THEN [notes |-> <<>>, root |-> "C", scale |-> "minor",
          raw_notes |-> raw_notes]
    ELSE [notes |-> ShiftToZero(QuantizedPitches(raw_notes, key.root,
                                                 key.scale)),
          root |-> key.root, scale |-> key.scale, raw_notes |-> raw_notes]

\* extract_melody_notes for the pitch trace f0.  raw_notes and the key are
\* bound by set membership so that each is computed once.
extract_melody_notes(f0, scale, root, auto_detect_key) ==
    CHOOSE r \in
        {ExtractReturn(raw_notes, key) :
            <<raw_notes, key>> \in
                {<<raw, ChosenKey(raw, scale, root, auto_detect_key)>> :
                    raw \in {FilterShort(FirstPass(f0, 1, <<>>, <<>>))}}} :
        TRUE

(***************************************************************************)
(* Specification SpecExtract: extract_melody_notes on pitch traces made of *)
(* up to MaxRuns runs of equal frames, each 4 or 5 frames long.  Two of    *)
(* the voiced frame values round to the same semitone.                     *)
(***************************************************************************)
MaxRuns == 3

RunLengths == {4, 5}

ExtractFrameValues ==
    {[kind |-> "nan", midi10 |-> 0], [kind |-> "nonpositive", midi10 |-> 0],
     [kind |-> "hz", midi10 |-> 596], [kind |-> "hz", midi10 |-> 604],
     [kind |-> "hz", midi10 |-> 620]}

\* <<scale, root, auto_detect_key>>
ExtractKeyArgs ==
    {<<None, None, TRUE>>, <<"major", None, TRUE>>, <<None, "D", FALSE>>,
     <<"major", "D", TRUE>>}

RECURSIVE PitchTraces(_)
PitchTraces(n) ==
    IF n = 0 THEN {<<>>}
    ELSE LET shorter == PitchTraces(n - 1)
         IN  shorter \cup
             {l \o [k \in 1..len |-> v] :
                 l \in shorter, v \in ExtractFrameValues, len \in RunLengths}

InitExtract ==
    /\ call = "none"
    /\ notes = <<>>
    /\ args \in {[f0 |-> f, scale |-> k[1], root |-> k[2],
                  auto_detect_key |-> k[3]] :
                     f \in PitchTraces(MaxRuns), k \in ExtractKeyArgs}
    /\ result = <<>>
    /\ aliased = FALSE
    /\ prev = 0
    /\ rng = <<>>
    /\ IdleMidi
    /\ out_file = NoFile
    /\ IdleRequest

ExtractMelodyNotesCall ==
    /\ call = "none"
    /\ call' = "extract_melody_notes"
    /\ result' = extract_melody_notes(args.f0, args.scale, args.root,
                                      args.auto_detect_key)
    /\ UNCHANGED <<notes, args, aliased, prev, rng, midiVars, out_file,
                 extendVars, requestVars>>

NextExtract == ExtractMelodyNotesCall

SpecExtract == InitExtract /\ [][NextExtract]_vars

\* C11: when no frame of the pitch trace is voiced (every frequency NaN or
\* <= 0), extract_melody_notes returns an empty note list (with the key
\* C minor) instead of failing.
C11_UnvoicedGivesEmpty ==
    (call = "extract_melody_notes"
        /\ \A i \in 1..Len(args.f0) : args.f0[i].kind \in {"nan", "nonpositive"})
    => (result.notes = <<>> /\ result.root = "C" /\ result.scale = "minor")

C11_Witness ==
    /\ call = "extract_melody_notes"
    /\ \E i \in 1..Len(args.f0) : args.f0[i].kind = "nan"
    /\ \A i \in 1..Len(args.f0) : args.f0[i].kind \in {"nan", "nonpositive"}
    /\ args.f0[Len(args.f0)].kind = "nonpositive"
    /\ result.notes = <<>>
\* Frames i and j are voiced and round to the same semitone.
SameSemitone(f, i, j) ==
    /\ f[i].kind = "hz"
    /\ f[j].kind = "hz"
    /\ Round(f[i].midi10, 10) = Round(f[j].midi10, 10)

\* The first frames of the maximal runs of voiced frames of one semitone.
RunStarts(f) ==
    {i \in 1..Len(f) :
        f[i].kind = "hz" /\ (i = 1 \/ ~SameSemitone(f, i - 1, i))}

\* The frame whose time ends the run that starts at frame i: the first
\* frame after the run, or the last frame when the run reaches the end.
RunStop(f, i) ==
    LET after == {j \in (i + 1)..Len(f) : ~SameSemitone(f, i, j)}
    IN  IF after = {} THEN Len(f)
        ELSE CHOOSE j \in after : \A k \in after : j <= k

RunNote(f, i) ==
    Note(Round(f[i].midi10, 10), (i - 1) * hop_length,
         (RunStop(f, i) - 1) * hop_length)

\* The runs whose span is at least 0.08 s: 100 * span >= 8 * sr samples.
KeptRuns(f) ==
    {i \in RunStarts(f) :
        100 * (RunNote(f, i).end - RunNote(f, i).start) >= 8 * yin_sr}

\* C17: the raw notes are exactly the notes of the maximal runs of voiced
\* frames of one rounded semitone whose span is at least 0.08 s, one note
\* per run and in the order of the runs; each starts at the time of the
\* run's first frame and ends at the time of the first frame after the run,
\* or of the last frame when the run reaches the end of the stream.
C17_RunsToNotes ==
    call = "extract_melody_notes" =>
        LET kept == KeptRuns(args.f0)
        IN  /\ Len(result.raw_notes) = Cardinality(kept)
            /\ \A i \in kept :
                   result.raw_notes[Cardinality({j \in kept : j <= i})]
                       = RunNote(args.f0, i)

C17_Witness ==
    /\ call = "extract_melody_notes"
    /\ Len(result.raw_notes) = 1
    /\ Cardinality(RunStarts(args.f0)) = 2
    /\ \E i \in 1..(Len(args.f0) - 1) :
           /\ SameSemitone(args.f0, i, i + 1)
           /\ args.f0[i] # args.f0[i + 1]

\* C18: the returned notes are in non-decreasing start order and do not
\* overlap, the first starts at exactly 0, and every start and end is the
\* raw time minus the original start of the first retained note.
C18_OrderedRebased ==
    call = "extract_melody_notes" =>
        LET out == result.notes
            raw == result.raw_notes
        IN  /\ Len(out) = Len(raw)
            /\ \A i \in 1..(Len(out) - 1) :
                   /\ out[i].start <= out[i + 1].start
                   /\ out[i].end <= out[i + 1].start
            /\ out # <<>> => out[1].start = 0
            /\ \A i \in 1..Len(out) :
                   /\ out[i].start = raw[i].start - raw[1].start
                   /\ out[i].end = raw[i].end - raw[1].start

C18_Witness ==
    /\ call = "extract_melody_notes"
    /\ Len(result.notes) = 2
    /\ result.raw_notes[1].start > 0
    /\ result.notes[1].start = 0
    /\ result.notes[2].end > result.notes[2].start
(***************************************************************************)
(* melody_generator.py: notes_to_wav.  Times are in microseconds again.    *)
(* A tone is what generate_instrument_tone returns: sample 0 is 0 (every   *)
(* harmonic is a sine at t = 0), the later samples depend on the pitch,    *)
(* the instrument and the random detuning and are given here by a shape,   *)
(* a sequence of levels read cyclically.  Levels are even integers in an   *)
(* arbitrary unit: the normalization divides the unit out.                 *)
(***************************************************************************)
\* audio * 0.85, in percent
Headroom == 85

\* audio * 32767
FullScale == 32767

\* start_sample = int(sr * n["start"])
StartSample(n, sr) == Trunc(sr * n.start, 1000000)

\* end_sample = max(int(sr * n["end"]), start_sample + 1)
EndSample(n, sr) == Max(Trunc(sr * n.end, 1000000), StartSample(n, sr) + 1)

\* max_time = max(n["end"] for n in notes)
MaxTime(ns) == SeqMax([i \in 1..Len(ns) |-> ns[i].end])

\* A buffer without the half second of tail.
TotalSamplesNoTail(ns, sr) == Trunc(sr * MaxTime(ns), 1000000)

\* total_samples = int(sr * (max_time + 0.5))
TotalSamples(ns, sr) == Trunc(sr * (MaxTime(ns) + 500000), 1000000)

\* tone[k], k = 0, 1, ...
ToneSample(shape, k) ==
    IF k = 0 THEN 0 ELSE shape[((k - 1) % Len(shape)) + 1]

\* audio[s] after the notes 1..j were mixed in: audio[start:start+len(tone)]
\* += tone * 0.5, s counted from 0.
RECURSIVE MixedSample(_, _, _, _, _)
MixedSample(ns, sr, shapes, j, s) ==
    IF j = 0 THEN 0
    ELSE MixedSample(ns, sr, shapes, j - 1, s)
         + (IF StartSample(ns[j], sr) <= s /\ s < EndSample(ns[j], sr)
            THEN (ToneSample(shapes[j], s - StartSample(ns[j], sr)) * 5)
                     \div 10
            ELSE 0)

\* The buffer after the loop over the notes.
MixedAudio(ns, sr, shapes) ==
    [i \in 1..TotalSamples(ns, sr) |->
        MixedSample(ns, sr, shapes, Len(ns), i - 1)]

\* max_val = np.max(np.abs(audio))
MaxVal(audio) ==
    IF audio = <<>> THEN 0
    ELSE SeqMax([i \in 1..Len(audio) |-> Abs(audio[i])])

\* A normalization to full scale, without the headroom.
NormalizedToFullScale(a, max_val) ==
    IF max_val > 0 THEN [num |-> a, den |-> max_val]
    ELSE [num |-> a, den |-> 1]

\* audio / max_val * 0.85 when max_val > 0, as the fraction num/den
Normalized(a, max_val) ==
    IF max_val > 0 THEN [num |-> a * Headroom, den |-> max_val * 100]
    ELSE [num |-> a, den |-> 1]

\* audio_int16 = (audio * 32767).astype(np.int16)
AudioInt16(audio) ==
    [i \in 1..Len(audio) |->
        LET x == Normalized(audio[i], MaxVal(audio))
        IN  Trunc(x.num * FullScale, x.den)]

\* A variant that opens the file before it looks at the notes.
notes_to_wav_opened_first(ns, sr, shapes, old_file) ==
    IF ns = <<>>
    THEN [raised |-> "ValueError",
          file |-> [exists |-> TRUE, framerate |-> sr, frames |-> <<>>]]
    ELSE [raised |-> "none",
          file |-> [exists |-> TRUE, framerate |-> sr,
                    frames |-> AudioInt16(MixedAudio(ns, sr, shapes))]]

\* notes_to_wav: what it raises and the file at out_path after it, old_file
\* being the file before.
notes_to_wav(ns, sr, shapes, old_file) ==
    IF ns = <<>> THEN [raised |-> "ValueError", file |-> old_file]
    ELSE [raised |-> "none",
          file |-> [exists |-> TRUE, framerate |-> sr,
                    frames |-> AudioInt16(MixedAudio(ns, sr, shapes))]]

(***************************************************************************)
(* Specification SpecWav: notes_to_wav on lists of valid notes, the empty  *)
(* list included, at small sample rates.                                   *)
(***************************************************************************)
MaxWavNotes == 2

WavRates == {2, 4, 8}

WavSpans ==
    {<<0, 300000>>, <<0, 500000>>, <<300000, 1250000>>, <<500000, 1250000>>}

ToneShapes == {<<0, 0>>, <<6, -8>>, <<-2, 4, 8>>}

RECURSIVE WavNoteLists(_)
WavNoteLists(n) ==
    IF n = 0 THEN {<<>>}
    ELSE LET shorter == WavNoteLists(n - 1)
         IN  shorter \cup
             {Append(l, Note(60, sp[1], sp[2])) :
                 l \in {x \in shorter : Len(x) = n - 1}, sp \in WavSpans}

InitWav ==
    /\ call = "none"
    /\ notes \in WavNoteLists(MaxWavNotes)
    /\ args \in [sr : WavRates]
    /\ result = [raised |-> "none"]
    /\ aliased = FALSE
    /\ prev = 0
    /\ rng = <<>>
    /\ IdleMidi
    /\ out_file = NoFile
    /\ IdleRequest

NotesToWavCall ==
    /\ call = "none"
    /\ call' = "notes_to_wav"
    /\ \E shapes \in [1..Len(notes) -> ToneShapes] :
          LET r == notes_to_wav(notes, args.sr, shapes, out_file)
          IN  /\ result' = [raised |-> r.raised]
              /\ out_file' = r.file
    /\ UNCHANGED <<notes, args, aliased, prev, rng, midiVars, extendVars,
                 requestVars>>

NextWav == NotesToWavCall

SpecWav == InitWav /\ [][NextWav]_vars

\* C12: notes_to_wav with an empty note list raises an error before the
\* output file is created or written: no file is left at out_path.
C12_EmptyRaisesBeforeFile ==
    (call = "notes_to_wav" /\ notes = <<>>) =>
        (result.raised = "ValueError" /\ out_file = NoFile
    /\ IdleRequest)

C12_Witness ==
    call = "notes_to_wav" /\ notes = <<>> /\ result.raised = "ValueError"

\* C15: every 16-bit sample notes_to_wav writes for a nonempty list is at
\* most 0.85 of full scale in absolute value.
C15_PeakWithinHeadroom ==
    (call = "notes_to_wav" /\ notes # <<>>) =>
        /\ out_file.exists
        /\ \A i \in 1..Len(out_file.frames) :
               100 * Abs(out_file.frames[i]) <= 85 * 32767

\* A file whose peak sample is 0.85 x 32767 truncated, two notes mixed.
C15_Witness ==
    /\ call = "notes_to_wav"
    /\ Len(notes) = 2
    /\ \E i \in 1..Len(out_file.frames) : Abs(out_file.frames[i]) = 27851
    /\ \E i \in 1..Len(out_file.frames) :
           Abs(out_file.frames[i]) \in 1..27850
\* C16 as stated: for a nonempty list the number of samples written is
\* >= sr x (max(end) + 0.5), and every note's sample range
\* [start_sample, end_sample) lies inside the buffer.
C16_LengthAtLeastExact ==
    (call = "notes_to_wav" /\ notes # <<>>) =>
        /\ 1000000 * Len(out_file.frames)
               >= args.sr * (MaxTime(notes) + 500000)
        /\ \A i \in 1..Len(notes) :
               /\ 0 <= StartSample(notes[i], args.sr)
               /\ EndSample(notes[i], args.sr) <= Len(out_file.frames)

\* C16 amended: the number of samples written is sr x (max(end) + 0.5)
\* rounded down to a whole sample, and for sr >= 2 every note's sample
\* range lies inside the buffer.
C16_LengthRoundedDown ==
    (call = "notes_to_wav" /\ notes # <<>>) =>
        /\ 1000000 * Len(out_file.frames)
               <= args.sr * (MaxTime(notes) + 500000)
        /\ 1000000 * (Len(out_file.frames) + 1)
               > args.sr * (MaxTime(notes) + 500000)
        /\ args.sr >= 2 =>
               \A i \in 1..Len(notes) :
                   /\ 0 <= StartSample(notes[i], args.sr)
                   /\ EndSample(notes[i], args.sr) <= Len(out_file.frames)

\* A buffer shorter than sr x (max(end) + 0.5), with a note of one sample.
C16_Witness ==
    /\ call = "notes_to_wav"
    /\ Len(notes) = 2
    /\ 1000000 * Len(out_file.frames) < args.sr * (MaxTime(notes) + 500000)
    /\ \E i \in 1..Len(notes) :
           EndSample(notes[i], args.sr) > Trunc(args.sr * notes[i].end, 1000000)
(***************************************************************************)
(* melody_enhancer.py: enhance_melody; audio_processing.py: analyze_melody *)
(***************************************************************************)
\* enhancers.get(mode, smooth_melody)(notes, intensity, root, scale), as
\* [out, used] with the outputs of np.random read.
enhance_melody(ns, mode, intensity, root, scale, stream) ==
    IF ns = <<>> THEN [out |-> <<>>, used |-> 0]
    ELSE CASE mode = "bounce" ->
                  [out |-> bounce_melody(ns, intensity, root, scale),
                   used |-> 0]
           [] mode = "trap_run" ->
                  trap_run_melody(ns, intensity, root, scale, stream)
           [] mode = "afro_vibe" ->
                  afro_vibe_melody(ns, intensity, root, scale, stream)
           [] mode = "choir" ->
                  [out |-> choir_harmony(ns, intensity, root, scale),
                   used |-> 0]
           [] OTHER ->
                  [out |-> smooth_melody(ns, intensity, root, scale),
                   used |-> 0]

\* sum(abs(midis[i+1] - midis[i])) over the first k intervals
RECURSIVE IntervalSum(_, _)
IntervalSum(ns, k) ==
    IF k = 0 THEN 0
    ELSE IntervalSum(ns, k - 1) + Abs(ns[k + 1].midi - ns[k].midi)

\* analyze_melody; avg_interval is the mean as <<sum, count>>, 0 when there
\* is no interval.
analyze_melody(ns) ==
    IF ns = <<>>
    THEN [num_notes |-> 0, duration |-> 0, pitch_range |-> 0,
          avg_interval |-> 0]
    ELSE LET midis == [i \in 1..Len(ns) |-> ns[i].midi]
         IN  [num_notes |-> Len(ns),
              duration |-> CurrentDuration(ns),
              pitch_range |-> SeqMax(midis) - SeqMin(midis),
              avg_interval |-> IF Len(ns) > 1
                               THEN <<IntervalSum(ns, Len(ns) - 1),
                                      Len(ns) - 1>>
                               ELSE 0,
              lowest_note |-> SeqMin(midis),
              highest_note |-> SeqMax(midis)]
(***************************************************************************)
(* app.py: hum_to_melody from line 117 on, stage by stage.  The request    *)
(* has passed the content-type test and its upload is saved; args holds    *)
(* the form fields and f0, the pitch trace librosa.yin gives for the       *)
(* upload.  pc names the stage to run next.  The MIDI and WAV stages       *)
(* record that their file is written; SpecMidi and SpecWav give what is    *)
(* in it.  Times from extract_melody_notes are turned from samples into    *)
(* whole microseconds.                                                     *)
(***************************************************************************)
\* seconds of a time in samples at yin_sr, in microseconds
ToMicros(t) == (t * 20000) \div 441

NotesInMicros(ns) ==
    [i \in 1..Len(ns) |->
        Note(ns[i].midi, ToMicros(ns[i].start), ToMicros(ns[i].end))]

\* `if quantize_grid:` and `if enhancement_mode:`: neither None nor "".
Requested(field) == field # None /\ field # ""

\* min_duration=15.0 at line 165
PipelineMinDuration == 15000000

\* The mode and intensity of the else branch, lines 156-162, with the
\* intensity of the form in place of 0.5.
DefaultEnhancementAtFormIntensity ==
    [mode |-> "smooth", intensity |-> args.enhancement_intensity]

\* The mode and intensity of the else branch, lines 156-162.
DefaultEnhancement == [mode |-> "smooth", intensity |-> 50]

Stage(name, ns) == [stage |-> name, count |-> Len(ns)]

\* Lines 118-126, when extract_melody_notes raises: librosa cannot read
\* the upload.
HumExtractError ==
    /\ pc = "extract"
    /\ ~args.readable
    /\ result' = [status |-> 500]
    /\ pc' = "failed"
    /\ UNCHANGED <<call, notes, args, aliased, prev, rng, queue, last_tick,
                   track, out_file, extendVars, requestVars>>

\* Lines 118-132.
HumExtract ==
    /\ pc = "extract"
    /\ args.readable
    /\ LET r == extract_melody_notes(args.f0, args.scale, args.root,
                                     args.auto_detect_key)
       IN  /\ notes' = NotesInMicros(r.notes)
           /\ detected_key' = [root |-> r.root, scale |-> r.scale]
    /\ stages' = Append(stages, Stage("extract", notes'))
    /\ IF notes' = <<>>
       THEN /\ result' = [status |-> 422]
            /\ pc' = "failed"
       ELSE /\ pc' = IF Requested(args.quantize_grid) THEN "quantize"
                     ELSE "enhance"
            /\ UNCHANGED result
    /\ UNCHANGED <<call, args, aliased, prev, rng, queue, last_tick, track,
                   out_file, extendVars, enhancement, analysis, files,
                   supabase, urls>>

\* Lines 135-143.
HumQuantize ==
    /\ pc = "quantize"
    /\ LET detected_bpm == detect_tempo(notes)
       IN  notes' = quantize_rhythm(notes, args.quantize_grid, detected_bpm,
                                    args.humanize, args.groove_template, rng)
    /\ rng' = Advance(rng, RhythmDraws(notes, args.humanize))
    /\ stages' = Append(stages, Stage("quantize", notes'))
    /\ pc' = "enhance"
    /\ UNCHANGED <<call, args, result, aliased, prev, queue, last_tick, track,
                   out_file, extendVars, detected_key, enhancement, analysis,
                   files, supabase, urls>>

\* Lines 146-162.
HumEnhance ==
    /\ pc = "enhance"
    /\ enhancement' =
           IF Requested(args.enhancement_mode)
           THEN [mode |-> args.enhancement_mode,
                 intensity |-> args.enhancement_intensity]
           ELSE DefaultEnhancement
    /\ LET r == enhance_melody(notes, enhancement'.mode,
                               enhancement'.intensity, detected_key.root,
                               detected_key.scale, rng)
       IN  /\ notes' = r.out
           /\ rng' = Advance(rng, r.used)
    /\ stages' = Append(stages, Stage("enhance", notes'))
    /\ pc' = "extend"
    /\ UNCHANGED <<call, args, result, aliased, prev, queue, last_tick, track,
                   out_file, extendVars, detected_key, analysis, files,
                   supabase, urls>>

\* Line 165, up to the first loop test or an early return.
HumExtendEnter ==
    /\ ExtendBegin(PipelineMinDuration)
    /\ IF pc' = "extended"
       THEN /\ notes' = result'
            /\ stages' = Append(stages, Stage("extend", notes'))
       ELSE UNCHANGED <<notes, stages>>
    /\ UNCHANGED <<call, args, prev, queue, last_tick, track, out_file,
                   detected_key, enhancement, analysis, files, supabase,
                   urls>>

\* Line 165, one pass of the loop.
HumExtendRepeat ==
    /\ stages # <<>>
    /\ ExtendRepeat(PipelineMinDuration)
    /\ UNCHANGED <<call, notes, args, prev, queue, last_tick, track, out_file,
                   requestVars>>

\* Line 165, the return.
HumExtendReturn ==
    /\ stages # <<>>
    /\ ExtendReturn(PipelineMinDuration)
    /\ notes' = result'
    /\ stages' = Append(stages, Stage("extend", notes'))
    /\ UNCHANGED <<call, args, prev, queue, last_tick, track, out_file,
                   detected_key, enhancement, analysis, files, supabase,
                   urls>>

\* Line 168.
HumAnalyze ==
    /\ pc = "extended"
    /\ stages # <<>>
    /\ analysis' = analyze_melody(notes)
    /\ stages' = Append(stages, Stage("analyze", notes))
    /\ pc' = "midi"
    /\ UNCHANGED <<call, notes, args, result, aliased, prev, rng, queue,
                   last_tick, track, out_file, extendVars, detected_key,
                   enhancement, files, supabase, urls>>

\* Lines 171-172.
HumMidi ==
    /\ pc = "midi"
    /\ files' = files \cup {"midi"}
    /\ stages' = Append(stages, Stage("midi", notes))
    /\ pc' = "wav"
    /\ UNCHANGED <<call, notes, args, result, aliased, prev, rng, queue,
                   last_tick, track, out_file, extendVars, detected_key,
                   enhancement, analysis, supabase, urls>>

\* Lines 175-176; notes_to_wav raises ValueError on an empty list before
\* it opens the file, and the request ends with a server error.
HumWav ==
    /\ pc = "wav"
    /\ stages' = Append(stages, Stage("wav", notes))
    /\ IF notes = <<>>
       THEN /\ result' = [status |-> 500]
            /\ pc' = "failed"
            /\ UNCHANGED files
       ELSE /\ files' = files \cup {"audio"}
            /\ pc' = "store"
            /\ UNCHANGED result
    /\ UNCHANGED <<call, notes, args, aliased, prev, rng, queue, last_tick,
                   track, out_file, extendVars, detected_key, enhancement,
                   analysis, supabase, urls>>

Buckets == {"hums", "melodies", "audio"}

\* supabase_storage.py, upload_file: the public URL, or None when the
\* client raised, which upload_file catches (lines 74-76).
UploadFile(bucket, outcome) ==
    IF outcome[bucket] = "uploaded" THEN <<"public", bucket>> ELSE None

LocalUrls ==
    [hum_url |-> None, midi_url |-> "/files/midi/id.mid",
     audio_url |-> "/files/audio/id.wav"]

\* Lines 179-227.  Nothing in the try block raises: upload_file and
\* save_melody_metadata catch every exception of the client, so the except
\* branch of lines 219-223 is not taken.
HumStore ==
    /\ pc = "store"
    /\ IF supabase.enabled
       THEN \E outcome \in [Buckets -> {"uploaded", "failed"}],
               saved \in BOOLEAN :
                /\ supabase' = [enabled |-> TRUE, outcome |-> outcome,
                                metadata_saved |-> saved]
                /\ urls' = [hum_url |-> UploadFile("hums", outcome),
                            midi_url |-> UploadFile("melodies", outcome),
                            audio_url |-> UploadFile("audio", outcome)]
       ELSE /\ urls' = LocalUrls
            /\ UNCHANGED supabase
    /\ pc' = "respond"
    /\ UNCHANGED <<call, notes, args, result, aliased, prev, rng, queue,
                   last_tick, track, out_file, extendVars, stages,
                   detected_key, enhancement, analysis, files>>

\* Lines 230-252.
HumRespond ==
    /\ pc = "respond"
    /\ result' = [status |-> 200,
                  midi_url |-> urls.midi_url,
                  audio_url |-> urls.audio_url,
                  note_count |-> Len(notes),
                  original_note_count |-> stages[1].count,
                  detected_key |-> detected_key,
                  analysis |-> analysis,
                  notes |-> notes]
    /\ pc' = "done"
    /\ UNCHANGED <<call, notes, args, aliased, prev, rng, queue, last_tick,
                   track, out_file, extendVars, requestVars>>

(***************************************************************************)
(* Specification SpecHum: one request, on pitch traces of up to            *)
(* MaxHumRuns runs of 30 frames, each unvoiced or at one of two pitches;   *)
(* the upload with no frame at all is the one librosa cannot read.         *)
(***************************************************************************)
MaxHumRuns == 2

HumRunFrames == 30

HumFrameValues ==
    {[kind |-> "nan", midi10 |-> 0], [kind |-> "hz", midi10 |-> 596],
     [kind |-> "hz", midi10 |-> 670]}

RECURSIVE HumTraces(_)
HumTraces(n) ==
    IF n = 0 THEN {<<>>}
    ELSE LET shorter == HumTraces(n - 1)
         IN  shorter \cup
             {l \o [k \in 1..HumRunFrames |-> v] :
                 l \in {x \in shorter : Len(x) = (n - 1) * HumRunFrames},
                 v \in HumFrameValues}

\* <<quantize_grid, groove_template, humanize>>
HumQuantizeFields ==
    {<<None, "straight", 0>>, <<"", "straight", 0>>, <<"1/8", "swing", 50>>}

HumModes ==
    {None, "", "smooth", "bounce", "trap_run", "afro_vibe", "choir", "bogus"}

HumRandom == {10, 60}

InitHum ==
    /\ call = "none"
    /\ notes = <<>>
    /\ args \in {[readable |-> f # <<>>, f0 |-> f, scale |-> None,
                  root |-> None, auto_detect_key |-> TRUE,
                  quantize_grid |-> q[1],
                  groove_template |-> q[2], humanize |-> q[3],
                  enhancement_mode |-> m, enhancement_intensity |-> 40] :
                     f \in HumTraces(MaxHumRuns), q \in HumQuantizeFields,
                     m \in HumModes}
    /\ rng \in {[i \in 1..RngPeriod |-> u] : u \in HumRandom}
    /\ result = <<>>
    /\ aliased = FALSE
    /\ prev = 0
    /\ pc = "extract"
    /\ queue = <<>>
    /\ last_tick = 0
    /\ track = <<>>
    /\ out_file = NoFile
    /\ loop_offset = 0
    /\ loop_extended = <<>>
    /\ stages = <<>>
    /\ detected_key = <<>>
    /\ enhancement = <<>>
    /\ analysis = <<>>
    /\ files = {"hum"}
    /\ supabase \in [enabled : BOOLEAN]
    /\ urls = <<>>

NextHum ==
    \/ HumExtractError
    \/ HumExtract
    \/ HumQuantize
    \/ HumEnhance
    \/ HumExtendEnter
    \/ HumExtendRepeat
    \/ HumExtendReturn
    \/ HumAnalyze
    \/ HumMidi
    \/ HumWav
    \/ HumStore
    \/ HumRespond

SpecHum == InitHum /\ [][NextHum]_vars
\* The names of the stages that have run, in the order they ran.
StagesRun == [i \in 1..Len(stages) |-> stages[i].stage]

\* The order of the stages of a request with the form fields of args.
StageOrder ==
    <<"extract">>
        \o (IF Requested(args.quantize_grid) THEN <<"quantize">> ELSE <<>>)
        \o <<"enhance", "extend", "analyze", "midi", "wav">>

\* C27: the stages of hum_to_melody run in the order extract, quantize
\* (only when a grid is requested), enhance (smooth at intensity 0.5 when
\* no mode is requested), extend, analyze, MIDI, WAV; an empty extraction
\* ends the request with status 422 before any later stage runs and before
\* a file is rendered; after a nonempty extraction every later stage
\* leaves a nonempty list, so that no request fails in a renderer.
C27_StagesInOrderOnNonemptyNotes ==
    /\ Len(stages) <= Len(StageOrder)
    /\ StagesRun = SubSeq(StageOrder, 1, Len(stages))
    /\ pc = "done" => StagesRun = StageOrder
    /\ (enhancement # <<>> /\ ~Requested(args.enhancement_mode))
           => enhancement = [mode |-> "smooth", intensity |-> 50]
    /\ (enhancement # <<>> /\ Requested(args.enhancement_mode))
           => enhancement = [mode |-> args.enhancement_mode,
                             intensity |-> args.enhancement_intensity]
    /\ (stages # <<>> /\ stages[1].count = 0)
           => /\ Len(stages) = 1
              /\ pc = "failed"
              /\ result = [status |-> 422]
              /\ files = {"hum"}
    /\ (stages = <<>> /\ pc # "extract") => (pc = "failed" /\ files = {"hum"})
    /\ (stages # <<>> /\ stages[1].count > 0)
           => /\ \A i \in 1..Len(stages) : stages[i].count > 0
              /\ notes # <<>>
              /\ pc # "failed"

\* A request with a grid and no mode has run all seven stages.
C27_Witness ==
    /\ pc = "done"
    /\ Requested(args.quantize_grid)
    /\ ~Requested(args.enhancement_mode)
    /\ Len(stages) = 7
    /\ stages[2].stage = "quantize"
    /\ {"midi", "audio"} \subseteq files
    /\ result.status = 200
    /\ result.note_count > result.original_note_count

\* C28: a request answered with Supabase enabled and an upload that failed
\* carries the local URLs of the MIDI and the WAV file.
C28_FailedUploadFallsBackToLocal ==
    (/\ pc = "done"
     /\ supabase.enabled
     /\ \E b \in Buckets : supabase.outcome[b] = "failed")
        => /\ result.status = 200
           /\ result.midi_url = LocalUrls.midi_url
           /\ result.audio_url = LocalUrls.audio_url
====
